---------------------------- MODULE Spec2Model ----------------------------
(***************************************************************************)
(* Model of the Redis-backed TaskQueue of src/coordinator/task_queue.py,   *)
(* of the load balancer of src/load-balancer/main2fixed.py and of the      *)
(* agent selection and dispatch of src/coordinator/mcp_server.py.          *)
(*                                                                         *)
(* The Redis store is the state: the task_data hash, one sorted set per    *)
(* status partition (pending, assigned, running, completed, failed), the   *)
(* per-agent task sets, the task_results hash and the metrics hash.  Every *)
(* TaskQueue method is a pure operator from a store to a store and a       *)
(* return value, translated statement by statement; an action commits the  *)
(* store the operator yields.                                              *)
(*                                                                         *)
(* Left out, because nothing reads them back: the agent_heartbeat hash     *)
(* (written by get_next_task, read only by get_queue_stats), the           *)
(* task_dependencies sets (written by submit_task, never read: the         *)
(* dependency check reads the list kept in the task record), the callbacks *)
(* and the record's assigned_at / started_at / completed_at copies of the  *)
(* scores kept in the assigned / running / completed / failed sets.        *)
(***************************************************************************)
EXTENDS Integers, Sequences, FiniteSets, TLC

(***************************************************************************)
(* Program constants                                                       *)
(***************************************************************************)
TASK_TIMEOUT == 300
RETRY_DELAY == 60
MAX_RETRIES == 3
PRIORITY_WEIGHT == 1000000
ZREVRANGE_STOP == 100
SECONDS_PER_HOUR == 3600

LOW == 1
NORMAL == 2
HIGH == 3
URGENT == 4
TaskPriority == {LOW, NORMAL, HIGH, URGENT}

TaskStatus ==
    {"pending", "assigned", "running", "completed", "failed", "cancelled", "retry"}

(***************************************************************************)
(* Bounds of the model                                                     *)
(***************************************************************************)
\* submit_task calls in one run of Spec
MaxSubmits == 2
\* minutes of wall clock in one run
MaxMinutes == 5
\* fail_task calls counted on one task beyond max_retries + 1
MaxExtraFails == 0

TaskIds == {1, 2}
AgentIds == {"a1", "a2"}
SYSTEM == "system"
NoAgent == "none"
NoError == "none"
NoResult == "none"
NoTaskId == 0

\* time.time(): seconds since the Unix epoch at the start of the run
Epoch == 17 * 100000000

Errors == {"worker error"}
TIMEOUT_ASSIGNED == "Timeout d'assignation"
TIMEOUT_RUNNING == "Timeout d'execution"
Results == {"ok"}

VARIABLES
    now,          \* the wall clock read by time.time()
    task_data,    \* hash keys['task_data']: task id -> task record
    pending,      \* sorted set keys['pending']: task id -> score
    assigned,     \* sorted set keys['assigned']
    running,      \* sorted set keys['running']
    completed,    \* sorted set keys['completed']
    failed,       \* sorted set keys['failed']
    agent_tasks,  \* sets keys['agent_tasks']:<agent>
    task_results, \* hash keys['task_results'] (its key set)
    metrics,      \* hash keys['metrics']
    pc,           \* position of each concurrent caller inside its call
    frame,        \* local variables of each concurrent caller
    agents,       \* LoadBalancer.agents: the registry, in insertion order
    agent_pool,   \* SwarmCoordinator.agent_pool, in insertion order
    last_discovery, \* SwarmCoordinator.last_discovery
    selected,     \* the value the last select_agent call returned
    lb_pc,        \* position of each discover_agents caller inside its call
    lb_frame,     \* local variables of each discover_agents caller
    swarm,        \* the execute_swarm call of the coordinator and its replicas
    loops,        \* LoadBalancer.running and its two background loops
    active_tasks, \* LoadBalancer.active_tasks: task id -> entry
    executing     \* position and local variables of each execute_task call

store_vars ==
    <<task_data, pending, assigned, running, completed, failed, agent_tasks,
      task_results, metrics>>
lb_vars == <<agents, agent_pool, last_discovery, selected, lb_pc, lb_frame, swarm, loops,
      active_tasks, executing>>
vars ==
    <<now, task_data, pending, assigned, running, completed, failed, agent_tasks,
      task_results, metrics, pc, frame, agents, agent_pool, last_discovery, selected,
      lb_pc, lb_frame, swarm, loops,
      active_tasks, executing>>

(***************************************************************************)
(* The store as one value                                                  *)
(***************************************************************************)
Store ==
    [task_data |-> task_data, pending |-> pending, assigned |-> assigned,
     running |-> running, completed |-> completed, failed |-> failed,
     agent_tasks |-> agent_tasks, task_results |-> task_results,
     metrics |-> metrics]

Commit(S) ==
    /\ task_data' = S.task_data
    /\ pending' = S.pending
    /\ assigned' = S.assigned
    /\ running' = S.running
    /\ completed' = S.completed
    /\ failed' = S.failed
    /\ agent_tasks' = S.agent_tasks
    /\ task_results' = S.task_results
    /\ metrics' = S.metrics

EmptyZ == [x \in {} |-> 0]

EmptyStore ==
    [task_data |-> [x \in {} |-> 0], pending |-> EmptyZ, assigned |-> EmptyZ,
     running |-> EmptyZ, completed |-> EmptyZ, failed |-> EmptyZ,
     agent_tasks |-> [a \in AgentIds |-> {}], task_results |-> {},
     metrics |-> [tasks_submitted |-> 0, tasks_completed |-> 0, tasks_failed |-> 0]]

(***************************************************************************)
(* Redis commands                                                          *)
(***************************************************************************)
ZAdd(z, m, score) == [x \in (DOMAIN z) \cup {m} |-> IF x = m THEN score ELSE z[x]]

ZRem(z, m) == [x \in (DOMAIN z) \ {m} |-> z[x]]

HSet(h, k, v) == [x \in (DOMAIN h) \cup {k} |-> IF x = k THEN v ELSE h[x]]

HDel(h, ks) == [x \in (DOMAIN h) \ ks |-> h[x]]

HExists(h, k) == k \in DOMAIN h

\* sorted-set order: by score, members of equal score by member
ZBefore(z, a, b) == z[a] < z[b] \/ (z[a] = z[b] /\ a < b)

ZMax(z) == CHOOSE m \in DOMAIN z : \A o \in (DOMAIN z) \ {m} : ZBefore(z, o, m)

ZMin(z) == CHOOSE m \in DOMAIN z : \A o \in (DOMAIN z) \ {m} : ZBefore(z, m, o)

RECURSIVE ZRevAll(_)
ZRevAll(z) == IF DOMAIN z = {} THEN <<>> ELSE <<ZMax(z)>> \o ZRevAll(ZRem(z, ZMax(z)))

RECURSIVE ZAll(_)
ZAll(z) == IF DOMAIN z = {} THEN <<>> ELSE <<ZMin(z)>> \o ZAll(ZRem(z, ZMin(z)))

\* ZREVRANGE key start stop: ranks start..stop (inclusive) from the highest score
ZRevRange(z, start, stop) ==
    LET all == ZRevAll(z)
        last == IF stop + 1 < Len(all) THEN stop + 1 ELSE Len(all)
    IN SubSeq(all, start + 1, last)

\* ZRANGEBYSCORE key lo hi: members with lo <= score <= hi, lowest score first
ZRangeByScore(z, lo, hi) ==
    ZAll([x \in {m \in DOMAIN z : lo <= z[m] /\ z[m] <= hi} |-> z[x]])

ZRemRangeByScore(z, lo, hi) ==
    [x \in {m \in DOMAIN z : ~(lo <= z[m] /\ z[m] <= hi)} |-> z[x]]

SeqToSet(s) == {s[i] : i \in 1 .. Len(s)}

\* hincrby metrics <metric> int(value)
_update_metrics(S, metric, value) ==
    [S EXCEPT !.metrics = [@ EXCEPT ![metric] = @ + value]]

(***************************************************************************)
(* Task records                                                            *)
(***************************************************************************)
Task(id, priority, max_retries, timeout, dependencies, required) ==
    [id |-> id, priority |-> priority, status |-> "pending", created_at |-> now,
     agent_id |-> NoAgent, retry_count |-> 0, max_retries |-> max_retries,
     timeout |-> timeout, dependencies |-> dependencies,
     required_capabilities |-> required, result |-> NoResult, error |-> NoError]

Terminal(status) == status \in {"completed", "failed", "cancelled"}

IsTask(task) ==
    /\ task.priority \in TaskPriority
    /\ task.status \in TaskStatus
    /\ task.agent_id \in {NoAgent, "a1", "a2"}
    /\ task.retry_count \in Nat
    /\ task.max_retries \in Nat
    /\ task.created_at \in Nat
    /\ task.error \in {NoError, "worker error", TIMEOUT_ASSIGNED, TIMEOUT_RUNNING}

TypeOK ==
    /\ now \in Nat
    /\ \A t \in DOMAIN task_data : IsTask(task_data[t]) /\ task_data[t].id = t
    /\ \A t \in DOMAIN pending : pending[t] \in Int
    /\ \A t \in DOMAIN assigned : assigned[t] \in Nat
    /\ \A t \in DOMAIN running : running[t] \in Nat
    /\ \A t \in DOMAIN completed : completed[t] \in Nat
    /\ \A t \in DOMAIN failed : failed[t] \in Nat
    /\ \A m \in DOMAIN metrics : metrics[m] \in Nat


SAdd(sets, a, t) == IF a \in DOMAIN sets THEN [sets EXCEPT ![a] = @ \cup {t}] ELSE sets

SRem(sets, a, t) == IF a \in DOMAIN sets THEN [sets EXCEPT ![a] = @ \ {t}] ELSE sets

(***************************************************************************)
(* TaskQueue methods, as functions from a store to [S: store, ret: value]  *)
(***************************************************************************)

\* mutant: the priority term is dropped from the score
priority_score_without_priority(task) == PRIORITY_WEIGHT - task.created_at

\* priority_score = priority.value * 1000000 + (1000000 - int(created_at))
priority_score(task) ==
    task.priority * PRIORITY_WEIGHT + (PRIORITY_WEIGHT - task.created_at)

submit_task(S, task) ==
    LET S1 == [S EXCEPT !.task_data = HSet(@, task.id, task)]
        S2 == [S1 EXCEPT !.pending = ZAdd(@, task.id, priority_score(task))]
    IN [S |-> _update_metrics(S2, "tasks_submitted", 1), ret |-> task.id]

\* True unless some dependency has a stored record whose status is not completed
_check_dependencies(S, task) ==
    \A dep_id \in task.dependencies :
        HExists(S.task_data, dep_id) => S.task_data[dep_id].status = "completed"

_assign_task(S, task, agent_id) ==
    LET t == [task EXCEPT !.status = "assigned", !.agent_id = agent_id]
        S1 == [S EXCEPT !.pending = ZRem(@, t.id)]
        S2 == [S1 EXCEPT !.assigned = ZAdd(@, t.id, now)]
        S3 == [S2 EXCEPT !.agent_tasks = SAdd(@, agent_id, t.id)]
    IN [S3 EXCEPT !.task_data = HSet(@, t.id, t)]

\* the capability test of get_next_task: TRUE when the task is skipped
capability_mismatch(task, capabilities) ==
    /\ capabilities # {}
    /\ task.required_capabilities # {}
    /\ ~(task.required_capabilities \subseteq capabilities)

\* the for loop of get_next_task over task_ids, from position i
RECURSIVE scan_pending(_, _, _, _, _)
scan_pending(S, task_ids, i, agent_id, capabilities) ==
    IF i > Len(task_ids) THEN [S |-> S, ret |-> NoTaskId]
    ELSE LET task_id == task_ids[i] IN
        IF ~HExists(S.task_data, task_id)
        THEN scan_pending([S EXCEPT !.pending = ZRem(@, task_id)], task_ids, i + 1,
                          agent_id, capabilities)
        ELSE LET task == S.task_data[task_id] IN
            IF capability_mismatch(task, capabilities)
            THEN scan_pending(S, task_ids, i + 1, agent_id, capabilities)
            ELSE IF _check_dependencies(S, task)
            THEN [S |-> _assign_task(S, task, agent_id), ret |-> task_id]
            ELSE scan_pending(S, task_ids, i + 1, agent_id, capabilities)

get_next_task(S, agent_id, capabilities) ==
    scan_pending(S, ZRevRange(S.pending, 0, ZREVRANGE_STOP), 1, agent_id, capabilities)

\* mutant: the agent that calls is not compared with the agent the task is bound to
start_task_by_any_agent(S, task_id, agent_id) ==
    IF ~HExists(S.task_data, task_id) THEN [S |-> S, ret |-> FALSE]
    ELSE LET task == S.task_data[task_id] IN
        IF task.status # "assigned"
        THEN [S |-> S, ret |-> FALSE]
        ELSE LET t == [task EXCEPT !.status = "running"]
                 S1 == [S EXCEPT !.assigned = ZRem(@, task_id)]
                 S2 == [S1 EXCEPT !.running = ZAdd(@, task_id, now)]
             IN [S |-> [S2 EXCEPT !.task_data = HSet(@, task_id, t)], ret |-> TRUE]

start_task(S, task_id, agent_id) ==
    IF ~HExists(S.task_data, task_id) THEN [S |-> S, ret |-> FALSE]
    ELSE LET task == S.task_data[task_id] IN
        IF task.agent_id # agent_id \/ task.status # "assigned"
        THEN [S |-> S, ret |-> FALSE]
        ELSE LET t == [task EXCEPT !.status = "running"]
                 S1 == [S EXCEPT !.assigned = ZRem(@, task_id)]
                 S2 == [S1 EXCEPT !.running = ZAdd(@, task_id, now)]
             IN [S |-> [S2 EXCEPT !.task_data = HSet(@, task_id, t)], ret |-> TRUE]

complete_task(S, task_id, agent_id, result) ==
    IF ~HExists(S.task_data, task_id) THEN [S |-> S, ret |-> FALSE]
    ELSE LET task == S.task_data[task_id] IN
        IF task.agent_id # agent_id \/ task.status # "running"
        THEN [S |-> S, ret |-> FALSE]
        ELSE LET t == [task EXCEPT !.status = "completed", !.result = result]
                 S1 == [S EXCEPT !.running = ZRem(@, task_id)]
                 S2 == [S1 EXCEPT !.completed = ZAdd(@, task_id, now)]
                 S3 == [S2 EXCEPT !.task_results = @ \cup {task_id}]
                 S4 == [S3 EXCEPT !.agent_tasks = SRem(@, agent_id, task_id)]
                 S5 == [S4 EXCEPT !.task_data = HSet(@, task_id, t)]
             IN [S |-> _update_metrics(S5, "tasks_completed", 1), ret |-> TRUE]

\* if retry and task.retry_count <= task.max_retries
should_retry(task, retry) == retry /\ task.retry_count <= task.max_retries

\* retry_time = time.time() + RETRY_DELAY * task.retry_count
retry_time(task) == now + RETRY_DELAY * task.retry_count

fail_task(S, task_id, agent_id, error, retry) ==
    IF ~HExists(S.task_data, task_id) THEN [S |-> S, ret |-> FALSE]
    ELSE LET task == S.task_data[task_id] IN
        IF task.agent_id # agent_id
        THEN [S |-> S, ret |-> FALSE]
        ELSE LET t1 == [task EXCEPT !.error = error, !.retry_count = @ + 1]
                 S1 == [S EXCEPT !.agent_tasks = SRem(@, agent_id, task_id)]
                 again == should_retry(t1, retry)
                 t2 == IF again
                       THEN [t1 EXCEPT !.status = "retry", !.agent_id = NoAgent]
                       ELSE [t1 EXCEPT !.status = "failed"]
                 S2 == IF again
                       THEN [S1 EXCEPT !.pending = ZAdd(@, task_id, retry_time(t1))]
                       ELSE _update_metrics(
                                [S1 EXCEPT !.failed = ZAdd(@, task_id, now)],
                                "tasks_failed", 1)
                 S3 == [S2 EXCEPT !.assigned = ZRem(@, task_id)]
                 S4 == [S3 EXCEPT !.running = ZRem(@, task_id)]
             IN [S |-> [S4 EXCEPT !.task_data = HSet(@, task_id, t2)], ret |-> TRUE]

cancel_task(S, task_id) ==
    IF ~HExists(S.task_data, task_id) THEN [S |-> S, ret |-> FALSE]
    ELSE LET task == S.task_data[task_id] IN
        IF Terminal(task.status)
        THEN [S |-> S, ret |-> FALSE]
        ELSE LET t == [task EXCEPT !.status = "cancelled"]
                 S1 == [S EXCEPT !.pending = ZRem(@, task_id)]
                 S2 == [S1 EXCEPT !.assigned = ZRem(@, task_id)]
                 S3 == [S2 EXCEPT !.running = ZRem(@, task_id)]
                 S4 == IF task.agent_id # NoAgent
                       THEN [S3 EXCEPT !.agent_tasks = SRem(@, task.agent_id, task_id)]
                       ELSE S3
             IN [S |-> [S4 EXCEPT !.task_data = HSet(@, task_id, t)], ret |-> TRUE]

\* one pass of the loop of cleanup_old_tasks over a finished-task set
cleanup_queue(S, queue_key, cutoff_time) ==
    LET old_tasks == SeqToSet(ZRangeByScore(S[queue_key], 0, cutoff_time)) IN
    IF old_tasks = {} THEN S
    ELSE [S EXCEPT ![queue_key] = ZRemRangeByScore(@, 0, cutoff_time),
                   !.task_data = HDel(@, old_tasks),
                   !.task_results = @ \ old_tasks]

cleanup_old_tasks(S, max_age_hours) ==
    LET cutoff_time == now - max_age_hours * SECONDS_PER_HOUR
    IN cleanup_queue(cleanup_queue(S, "completed", cutoff_time), "failed", cutoff_time)

\* the agent id monitor_timeouts passes to fail_task for an assigned task
assigned_timeout_agent(S, task_id) == SYSTEM

\* mutant: the sweep of running tasks passes "system", as the sweep of assigned
\* tasks does
running_timeout_agent_system(S, task_id) == SYSTEM

\* the agent id monitor_timeouts passes to fail_task for a running task
running_timeout_agent(S, task_id) ==
    IF S.task_data[task_id].agent_id # NoAgent
    THEN S.task_data[task_id].agent_id
    ELSE SYSTEM

\* the cut-off score of both range reads of monitor_timeouts
timeout_cutoff == now - TASK_TIMEOUT

RECURSIVE sweep_assigned(_, _, _)
sweep_assigned(S, task_ids, i) ==
    IF i > Len(task_ids) THEN S
    ELSE sweep_assigned(
             fail_task(S, task_ids[i], assigned_timeout_agent(S, task_ids[i]),
                       TIMEOUT_ASSIGNED, TRUE).S,
             task_ids, i + 1)

RECURSIVE sweep_running(_, _, _)
sweep_running(S, task_ids, i) ==
    IF i > Len(task_ids) THEN S
    ELSE LET task_id == task_ids[i] IN
        sweep_running(
            IF HExists(S.task_data, task_id)
            THEN fail_task(S, task_id, running_timeout_agent(S, task_id),
                           TIMEOUT_RUNNING, TRUE).S
            ELSE S,
            task_ids, i + 1)

monitor_timeouts(S) ==
    LET S1 == sweep_assigned(S, ZRangeByScore(S.assigned, 0, timeout_cutoff), 1)
    IN sweep_running(S1, ZRangeByScore(S1.running, 0, timeout_cutoff), 1)


(***************************************************************************)
(* Actions: one per TaskQueue method, each the whole call                  *)
(***************************************************************************)
Idle == [a \in AgentIds |-> "idle"]

\* the local variables of a call: the capabilities passed, the ids read by a range
\* read, the loop position, the task record read, the time read by _assign_task,
\* the dependencies still to check and the value returned by get_next_task; for
\* complete_task, fail_task and cancel_task the agent_id passed, the time read for
\* completed_at and the ids of the tasks on which the call has returned True
NullTask == Task(NoTaskId, LOW, 0, 0, {}, {})
NullFrame ==
    [capabilities |-> {}, task_ids |-> <<>>, i |-> 0, task |-> [NullTask EXCEPT !.created_at = 0],
     assigned_at |-> 0, deps |-> {}, ret |-> NoTaskId,
     agent_id |-> NoAgent, completed_at |-> 0, done |-> {}]
NoFrame == [a \in AgentIds |-> NullFrame]

\* the tasks that may run discover_agents: the _background_discovery loop and a
\* POST /discover request
DiscoveryCallers == {"background", "endpoint"}

\* the local variables of a discover_agents call: previous_agents, the position in
\* service_names, the addresses resolved for that name and the position in
\* previous_agents
NullDiscovery == [previous_agents |-> <<>>, service |-> 0, ips |-> <<>>, i |-> 0]

\* no execute_swarm call is in progress
NoSwarm ==
    [pc |-> "idle", strategy |-> "parallel", replicas |-> 0, swarm_id |-> <<0, 0>>,
     tasks |-> <<>>, started |-> <<>>, outcomes |-> <<>>,
     response |-> [success |-> FALSE, results |-> <<>>, total_replicas |-> 0,
                   successful_replicas |-> 0, failed_replicas |-> 0]]

\* the load balancer before initialize: not running, no background task created
\* the background tasks of the load balancer
BackgroundLoops == {"discovery", "health_check"}

\* the load balancer after __init__: running False, no background task; heap holds
\* the Agent objects that a dict or a local variable refers to, registry is
\* self.agents as the references it holds, in insertion order
NoLoops ==
    [running |-> FALSE,
     pc |-> [l \in BackgroundLoops |-> "off"],
     cancel |-> {},
     heap |-> [o \in {} |-> NoAgent],
     registry |-> <<>>,
     previous_agents |-> <<>>, service |-> 0, ips |-> <<>>, i |-> 0,
     snapshot |-> <<>>, k |-> 0,
     cycles |-> [l \in BackgroundLoops |-> 0],
     errors |-> [l \in BackgroundLoops |-> 0]]

\* the requests POST /execute is serving at the same time
ExecuteCalls == {"r1", "r2"}

\* LoadBalancer.active_tasks after __init__
NoActiveTasks == [x \in {} |-> 0]

\* no execute_task call in progress: the agent and the task id of the call, the kind
\* of answer the worker gave and the dict the call returned
NoExecution ==
    [pc |-> "idle", agent_id |-> NoAgent, task_id |-> NoTaskId, response |-> "none",
     ret |-> [success |-> FALSE, error |-> NoError, execution_time |-> 0]]

Sequential == UNCHANGED <<now, pc, frame, lb_vars>>

\* the state of the queue after construction
InitQueue ==
    /\ now = Epoch
    /\ task_data = EmptyStore.task_data
    /\ pending = EmptyStore.pending
    /\ assigned = EmptyStore.assigned
    /\ running = EmptyStore.running
    /\ completed = EmptyStore.completed
    /\ failed = EmptyStore.failed
    /\ agent_tasks = EmptyStore.agent_tasks
    /\ task_results = EmptyStore.task_results
    /\ metrics = EmptyStore.metrics
    /\ pc = Idle
    /\ frame = NoFrame

\* the state of the coordinator and of the load balancer's callers after construction
InitCallers ==
    /\ agent_pool = <<>>
    /\ last_discovery = 0
    /\ selected = NoAgent
    /\ lb_pc = [c \in DiscoveryCallers |-> "idle"]
    /\ lb_frame = [c \in DiscoveryCallers |-> NullDiscovery]
    /\ swarm = NoSwarm
    /\ loops = NoLoops
    /\ active_tasks = NoActiveTasks
    /\ executing = [c \in ExecuteCalls |-> NoExecution]

Init ==
    /\ InitQueue
    /\ InitCallers
    /\ agents = <<>>

\* time passes between calls
Tick(d) ==
    /\ now + d <= Epoch + 60 * MaxMinutes
    /\ now' = now + d
    /\ UNCHANGED <<store_vars, pc, frame, lb_vars>>

\* a task is submitted under an id the store does not hold
SubmitTask(id, priority, max_retries, timeout, dependencies, required) ==
    /\ ~HExists(task_data, id)
    /\ Commit(submit_task(Store,
                  Task(id, priority, max_retries, timeout, dependencies, required)).S)
    /\ Sequential

GetNextTask(agent_id, capabilities) ==
    /\ Commit(get_next_task(Store, agent_id, capabilities).S)
    /\ Sequential

StartTask(task_id, agent_id) ==
    /\ Commit(start_task(Store, task_id, agent_id).S)
    /\ Sequential

CompleteTask(task_id, agent_id, result) ==
    /\ Commit(complete_task(Store, task_id, agent_id, result).S)
    /\ Sequential

\* the model stops counting failures of one task past max_retries + 1 + MaxExtraFails
FailuresCounted(S, task_id) ==
    HExists(S.task_data, task_id) =>
        S.task_data[task_id].retry_count
            < S.task_data[task_id].max_retries + 1 + MaxExtraFails

FailTask(task_id, agent_id, error, retry) ==
    /\ FailuresCounted(Store, task_id)
    /\ Commit(fail_task(Store, task_id, agent_id, error, retry).S)
    /\ Sequential

CancelTask(task_id) ==
    /\ Commit(cancel_task(Store, task_id).S)
    /\ Sequential

MonitorTimeouts ==
    /\ \A t \in SeqToSet(ZRangeByScore(assigned, 0, timeout_cutoff))
                \cup SeqToSet(ZRangeByScore(running, 0, timeout_cutoff)) :
           FailuresCounted(Store, t)
    /\ Commit(monitor_timeouts(Store))
    /\ Sequential

CleanupOldTasks(max_age_hours) ==
    /\ Commit(cleanup_old_tasks(Store, max_age_hours))
    /\ Sequential

(***************************************************************************)
(* Spec: any sequence of calls on two tasks, one call at a time            *)
(***************************************************************************)
SubmitTemplates ==
    {[priority |-> LOW, max_retries |-> 1, timeout |-> TASK_TIMEOUT, required |-> {}],
     [priority |-> HIGH, max_retries |-> 1, timeout |-> TASK_TIMEOUT,
      required |-> {"browser"}]}
SubmitDependencies(id) == {{}} \cup {{d} : d \in TaskIds \ {id}}
CallerCapabilities == {{}, {"browser"}, {"api"}}
CleanupAges == {0, 24}

Next ==
    \/ Tick(TASK_TIMEOUT)
    \/ \E id \in TaskIds, tpl \in SubmitTemplates :
          \E deps \in SubmitDependencies(id) :
              /\ metrics.tasks_submitted < MaxSubmits
              /\ SubmitTask(id, tpl.priority, tpl.max_retries, tpl.timeout, deps,
                            tpl.required)
    \/ \E a \in AgentIds, caps \in CallerCapabilities : GetNextTask(a, caps)
    \/ \E t \in TaskIds, a \in AgentIds : StartTask(t, a)
    \/ \E t \in TaskIds, a \in AgentIds, r \in Results : CompleteTask(t, a, r)
    \/ \E t \in TaskIds, a \in AgentIds, e \in Errors, retry \in BOOLEAN :
          FailTask(t, a, e, retry)
    \/ \E t \in TaskIds : CancelTask(t)
    \/ MonitorTimeouts
    \/ \E h \in CleanupAges : CleanupOldTasks(h)

Spec == Init /\ [][Next]_vars

\* the task is stored with this status and bound to this agent
BoundWith(task_id, agent_id, status) ==
    /\ HExists(task_data, task_id)
    /\ task_data[task_id].status = status
    /\ task_data[task_id].agent_id = agent_id

\* C29: start_task takes effect only on an Assigned task called by its bound agent,
\* complete_task only on a Running task called by its bound agent; every other
\* call returns False and leaves the task records and all indexes as they were.
C29_RefusedCallsChangeNothing ==
    \A t \in TaskIds, a \in AgentIds :
        LET started == start_task(Store, t, a)
            finished == complete_task(Store, t, a, "ok")
        IN /\ started.ret = BoundWith(t, a, "assigned")
           /\ ~BoundWith(t, a, "assigned") => started.S = Store
           /\ started.ret =>
                  /\ started.S.task_data[t].status = "running"
                  /\ t \in DOMAIN started.S.running
           /\ finished.ret = BoundWith(t, a, "running")
           /\ ~BoundWith(t, a, "running") => finished.S = Store
           /\ finished.ret =>
                  /\ finished.S.task_data[t].status = "completed"
                  /\ t \in DOMAIN finished.S.completed

\* one task is Running, bound to an agent, after its start_task; another is
\* Assigned; and a third id is not stored
C29_Witness ==
    \E t, u \in TaskIds, a \in AgentIds :
        /\ BoundWith(t, a, "running")
        /\ t \in DOMAIN running
        /\ \E b \in AgentIds : b # a /\ BoundWith(u, b, "assigned")

\* C30: get_next_task never returns a task whose required capabilities are not
\* all among the capabilities the caller passes, an empty list included.
C30_ReturnedTaskMatchesCapabilities ==
    \A a \in AgentIds, caps \in CallerCapabilities :
        LET next == get_next_task(Store, a, caps)
        IN next.ret # NoTaskId =>
               task_data[next.ret].required_capabilities \subseteq caps

(***************************************************************************)
(* Properties of the sequential queue                                      *)
(***************************************************************************)
Callers == AgentIds

\* the pending entries get_next_task may hand to a caller with these capabilities
EligiblePending(S, capabilities) ==
    {t \in DOMAIN S.pending :
        /\ HExists(S.task_data, t)
        /\ ~capability_mismatch(S.task_data[t], capabilities)
        /\ _check_dependencies(S, S.task_data[t])}

\* t is served no later than u: higher priority, or equal priority and not created later
ServedBefore(S, t, u) ==
    \/ S.task_data[t].priority > S.task_data[u].priority
    \/ /\ S.task_data[t].priority = S.task_data[u].priority
       /\ S.task_data[t].created_at <= S.task_data[u].created_at

\* C1: in every stored task record retry_count <= max_retries, after any sequence
\* of submit_task / get_next_task / start_task / fail_task calls and sweeps.
C1_RetryCountWithinMax ==
    \A t \in DOMAIN task_data : task_data[t].retry_count <= task_data[t].max_retries

\* C2: in every reachable state and for every caller, get_next_task returns a task
\* whenever an eligible pending task exists, and the task it returns is the eligible
\* pending task of highest priority and, within that priority, earliest created_at.
C2_NextIsBestEligible ==
    \A a \in Callers, caps \in CallerCapabilities :
        LET ret == get_next_task(Store, a, caps).ret
            eligible == EligiblePending(Store, caps)
        IN /\ eligible # {} => ret # NoTaskId
           /\ ret # NoTaskId =>
                 /\ ret \in eligible
                 /\ \A u \in eligible : ServedBefore(Store, ret, u)

\* C3: get_next_task never returns a task one of whose dependency ids is not the id
\* of a stored task in status completed (never submitted and removed ids included).
C3_NextHasDependenciesCompleted ==
    \A a \in Callers, caps \in CallerCapabilities :
        LET ret == get_next_task(Store, a, caps).ret
        IN ret # NoTaskId =>
              \A dep \in task_data[ret].dependencies :
                  /\ HExists(task_data, dep)
                  /\ task_data[dep].status = "completed"

\* C5: on a task whose status is completed, failed or cancelled, complete_task and
\* fail_task return False and leave the whole store as it is, whichever agent calls.
C5_TerminalCallsAreNoOps ==
    \A t \in DOMAIN task_data :
        Terminal(task_data[t].status) =>
            \A a \in Callers :
                /\ \A r \in Results :
                      complete_task(Store, t, a, r) = [S |-> Store, ret |-> FALSE]
                /\ \A e \in Errors, retry \in BOOLEAN :
                      fail_task(Store, t, a, e, retry) = [S |-> Store, ret |-> FALSE]

\* C6: once a task is completed, failed or cancelled, no step of the queue changes
\* its status or puts it into the pending index.
C6_TerminalIsFinal ==
    [][\A t \in DOMAIN task_data :
          Terminal(task_data[t].status) =>
              /\ t \in DOMAIN task_data' => task_data'[t].status = task_data[t].status
              /\ t \in DOMAIN pending' => t \in DOMAIN pending]_vars

\* an assigned task whose own timeout has elapsed since assignment, retries remaining
AssignmentTimedOut(t) ==
    /\ HExists(task_data, t)
    /\ task_data[t].status = "assigned"
    /\ t \in DOMAIN assigned
    /\ assigned[t] + task_data[t].timeout <= now
    /\ task_data[t].retry_count < task_data[t].max_retries

\* C8 (Scenario E): a run of monitor_timeouts moves every assigned task whose timeout
\* has elapsed without start_task, retries remaining, to retry with retry_count
\* incremented and the assignment-timeout error.
C8_SweepRetriesAssigned ==
    \A t \in TaskIds :
        AssignmentTimedOut(t) =>
            LET after == monitor_timeouts(Store).task_data[t]
            IN /\ after.status = "retry"
               /\ after.retry_count = task_data[t].retry_count + 1
               /\ after.error = TIMEOUT_ASSIGNED

\* C9: a task put into retry by fail_task at time t with new retry_count k (its
\* pending score is t + RETRY_DELAY * k) is not returned by get_next_task before
\* that time.
C9_RetryWaitsForDelay ==
    \A t \in DOMAIN pending :
        (HExists(task_data, t) /\ task_data[t].status = "retry") =>
            \A a \in Callers, caps \in CallerCapabilities :
                get_next_task(Store, a, caps).ret = t => now >= pending[t]

\* the status changes the state machine allows
StatusRelation ==
    {<<"pending", "assigned">>, <<"assigned", "running">>, <<"running", "completed">>,
     <<"running", "failed">>, <<"running", "retry">>, <<"retry", "pending">>}
        \cup {<<s, "cancelled">> : s \in {"pending", "assigned", "running", "retry"}}

\* C11: every change of a stored task's status made by a TaskQueue call is a pair of
\* StatusRelation: Pending->Assigned, Assigned->Running, Running->{Completed, Failed,
\* Retry}, Retry->Pending, non-terminal->Cancelled; so a task is assigned only from
\* Pending and a Retry task is Pending again before it is assigned.
C11_StatusChangesWithinRelation ==
    [][\A t \in (DOMAIN task_data) \cap (DOMAIN task_data') :
          task_data'[t].status # task_data[t].status =>
              <<task_data[t].status, task_data'[t].status>> \in StatusRelation]_vars

(***************************************************************************)
(* SpecScenarioA: three tasks Low, High, Normal submitted in that order,   *)
(* then claimed                                                            *)
(***************************************************************************)
ScenarioAPriorities == <<LOW, HIGH, NORMAL>>
ScenarioATaskIds == {1, 2, 3}

SubmitScenarioA(id) ==
    /\ metrics.tasks_submitted < Len(ScenarioAPriorities)
    /\ SubmitTask(id, ScenarioAPriorities[metrics.tasks_submitted + 1], MAX_RETRIES,
                  TASK_TIMEOUT, {}, {})

ScenarioASubmitted == metrics.tasks_submitted = Len(ScenarioAPriorities)

NextScenarioA ==
    \/ Tick(RETRY_DELAY)
    \/ \E id \in ScenarioATaskIds : SubmitScenarioA(id)
    \/ \E a \in AgentIds, caps \in CallerCapabilities :
          ScenarioASubmitted /\ GetNextTask(a, caps)

SpecScenarioA == Init /\ [][NextScenarioA]_vars

ScenarioATask(priority) ==
    CHOOSE t \in DOMAIN task_data : task_data[t].priority = priority

ScenarioAClaimed == {t \in DOMAIN task_data : t \notin DOMAIN pending}

\* C10 (Scenario A): once the Low, High and Normal tasks are submitted, the tasks
\* claimed so far are the High task, then the Normal task, then the Low task, and the
\* next get_next_task call of any caller returns the next task of that order.
C10_ScenarioAOrder ==
    ScenarioASubmitted =>
        LET h == ScenarioATask(HIGH)
            n == ScenarioATask(NORMAL)
            l == ScenarioATask(LOW)
            expected == IF ScenarioAClaimed = {} THEN h
                        ELSE IF ScenarioAClaimed = {h} THEN n
                        ELSE IF ScenarioAClaimed = {h, n} THEN l
                        ELSE NoTaskId
        IN /\ ScenarioAClaimed \in {{}, {h}, {h, n}, {h, n, l}}
           /\ \A a \in Callers, caps \in CallerCapabilities :
                 get_next_task(Store, a, caps).ret = expected

\* the three tasks were created at three different times and claimed at three
\* different times, High first and Low last
C10_Witness ==
    /\ ScenarioASubmitted
    /\ DOMAIN pending = {}
    /\ DOMAIN assigned = DOMAIN task_data
    /\ LET h == ScenarioATask(HIGH)
           n == ScenarioATask(NORMAL)
           l == ScenarioATask(LOW)
       IN /\ task_data[l].created_at < task_data[h].created_at
          /\ task_data[h].created_at < task_data[n].created_at
          /\ assigned[h] < assigned[n]
          /\ assigned[n] < assigned[l]

(***************************************************************************)
(* SpecScenarioB: one task with max_retries = 2, claimed and failed with   *)
(* retry = true by the agent it is bound to                                *)
(***************************************************************************)
ScenarioB == [task_id |-> 1, max_retries |-> 2]
ScenarioBTask == ScenarioB.task_id
ScenarioBMaxRetries == ScenarioB.max_retries

NextScenarioB ==
    \/ \E d \in {RETRY_DELAY, TASK_TIMEOUT} : Tick(d)
    \/ /\ metrics.tasks_submitted = 0
       /\ SubmitTask(ScenarioBTask, NORMAL, ScenarioBMaxRetries, TASK_TIMEOUT, {}, {})
    \/ \E a \in AgentIds, caps \in CallerCapabilities : GetNextTask(a, caps)
    \/ \E a \in AgentIds : StartTask(ScenarioBTask, a)
    \/ \E a \in AgentIds, e \in Errors : FailTask(ScenarioBTask, a, e, TRUE)

SpecScenarioB == Init /\ [][NextScenarioB]_vars

\* C7 (Scenario B): the task with max_retries = 2, claimed and failed with
\* retry = true three times, is failed with retry_count = 2 and is not pending.
C7_ScenarioBEndsAtTwo ==
    (HExists(task_data, ScenarioBTask) /\ task_data[ScenarioBTask].status = "failed") =>
        /\ task_data[ScenarioBTask].retry_count = ScenarioBMaxRetries
        /\ ScenarioBTask \notin DOMAIN pending

(***************************************************************************)
(* SpecConcurrent: two agents inside get_next_task at once.  A call is one *)
(* step per awaited Redis command; the steps of the two calls interleave.  *)
(***************************************************************************)
SetPc(a, label) == pc' = [pc EXCEPT ![a] = label]

SetFrame(a, f) == frame' = [frame EXCEPT ![a] = f]

\* the call returns: the value is kept in the caller's frame
Return(a, f, value) ==
    /\ SetPc(a, "idle")
    /\ SetFrame(a, [f EXCEPT !.ret = value])

\* the for loop of get_next_task moves to the next id, or the call returns None
Continue(a, f) ==
    IF f.i + 1 > Len(f.task_ids)
    THEN Return(a, f, NoTaskId)
    ELSE /\ SetPc(a, "hget")
         /\ SetFrame(a, [f EXCEPT !.i = @ + 1])

\* _check_dependencies returned True: _assign_task sets the fields of its copy of
\* the record and reads the clock, then awaits zrem
BeginAssign(a, f) ==
    /\ SetPc(a, "zrem")
    /\ SetFrame(a, [f EXCEPT !.task = [@ EXCEPT !.status = "assigned", !.agent_id = a],
                             !.assigned_at = now])

\* get_next_task is called: await _update_agent_heartbeat
GnCall(a, capabilities) ==
    /\ pc[a] = "idle"
    /\ SetPc(a, "zrevrange")
    /\ SetFrame(a, [NullFrame EXCEPT !.capabilities = capabilities])
    /\ UNCHANGED <<now, store_vars, lb_vars>>

\* task_ids = await zrevrange(pending, 0, 100)
GnZRevRange(a) ==
    /\ pc[a] = "zrevrange"
    /\ LET f == [frame[a] EXCEPT !.task_ids = ZRevRange(pending, 0, ZREVRANGE_STOP),
                                 !.i = 0]
       IN Continue(a, f)
    /\ UNCHANGED <<now, store_vars, lb_vars>>

\* task_data = await hget(task_data, task_id), then the capability test and the
\* start of _check_dependencies, up to the next await
GnHGet(a) ==
    /\ pc[a] = "hget"
    /\ LET f == frame[a]
           task_id == f.task_ids[f.i]
       IN IF ~HExists(task_data, task_id)
          THEN SetPc(a, "zrem_orphan") /\ UNCHANGED frame
          ELSE LET g == [f EXCEPT !.task = task_data[task_id],
                                  !.deps = task_data[task_id].dependencies]
               IN IF capability_mismatch(g.task, g.capabilities) THEN Continue(a, g)
                  ELSE IF g.deps = {} THEN BeginAssign(a, g)
                  ELSE SetPc(a, "hget_dep") /\ SetFrame(a, g)
    /\ UNCHANGED <<now, store_vars, lb_vars>>

\* await zrem(pending, task_id) of an id that has no record; continue
GnZRemOrphan(a) ==
    /\ pc[a] = "zrem_orphan"
    /\ pending' = ZRem(pending, frame[a].task_ids[frame[a].i])
    /\ Continue(a, frame[a])
    /\ UNCHANGED <<now, task_data, assigned, running, completed, failed, agent_tasks,
                   task_results, metrics, lb_vars>>

\* dep_data = await hget(task_data, dep_id) for the next dependency
GnHGetDep(a) ==
    /\ pc[a] = "hget_dep"
    /\ LET f == frame[a]
           dep_id == CHOOSE d \in f.deps : \A o \in f.deps : d <= o
           g == [f EXCEPT !.deps = @ \ {dep_id}]
       IN IF HExists(task_data, dep_id) /\ task_data[dep_id].status # "completed"
          THEN Continue(a, g)
          ELSE IF g.deps = {} THEN BeginAssign(a, g)
          ELSE SetPc(a, "hget_dep") /\ SetFrame(a, g)
    /\ UNCHANGED <<now, store_vars, lb_vars>>

\* await zrem(pending, task.id)
GnZRem(a) ==
    /\ pc[a] = "zrem"
    /\ pending' = ZRem(pending, frame[a].task.id)
    /\ SetPc(a, "zadd")
    /\ UNCHANGED <<now, frame, task_data, assigned, running, completed, failed,
                   agent_tasks, task_results, metrics, lb_vars>>

\* await zadd(assigned, {task.id: task.assigned_at})
GnZAdd(a) ==
    /\ pc[a] = "zadd"
    /\ assigned' = ZAdd(assigned, frame[a].task.id, frame[a].assigned_at)
    /\ SetPc(a, "sadd")
    /\ UNCHANGED <<now, frame, task_data, pending, running, completed, failed,
                   agent_tasks, task_results, metrics, lb_vars>>

\* await sadd(agent_tasks:<agent_id>, task.id)
GnSAdd(a) ==
    /\ pc[a] = "sadd"
    /\ agent_tasks' = SAdd(agent_tasks, a, frame[a].task.id)
    /\ SetPc(a, "hset")
    /\ UNCHANGED <<now, frame, task_data, pending, assigned, running, completed, failed,
                   task_results, metrics, lb_vars>>

\* await hset(task_data, task.id, task); return task
GnHSet(a) ==
    /\ pc[a] = "hset"
    /\ task_data' = HSet(task_data, frame[a].task.id, frame[a].task)
    /\ Return(a, frame[a], frame[a].task.id)
    /\ UNCHANGED <<now, pending, assigned, running, completed, failed, agent_tasks,
                   task_results, metrics, lb_vars>>

\* a call of another method, made by an agent that is not inside get_next_task
Between(a, call) ==
    /\ pc[a] = "idle"
    /\ call

ConcurrentTemplates ==
    {[priority |-> NORMAL, max_retries |-> 1, timeout |-> TASK_TIMEOUT, required |-> {}]}

\* ids are handed out in sequence, so that no id is ever submitted twice
SubmitInSequence(id, tpl, deps) ==
    /\ id = metrics.tasks_submitted + 1
    /\ SubmitTask(id, tpl.priority, tpl.max_retries, tpl.timeout, deps, tpl.required)

NextConcurrent ==
    \/ \E id \in TaskIds, tpl \in ConcurrentTemplates :
          \E deps \in SubmitDependencies(id) : SubmitInSequence(id, tpl, deps)
    \/ \E a \in AgentIds, caps \in {{}} : GnCall(a, caps)
    \/ \E a \in AgentIds : GnZRevRange(a)
    \/ \E a \in AgentIds : GnHGet(a)
    \/ \E a \in AgentIds : GnZRemOrphan(a)
    \/ \E a \in AgentIds : GnHGetDep(a)
    \/ \E a \in AgentIds : GnZRem(a)
    \/ \E a \in AgentIds : GnZAdd(a)
    \/ \E a \in AgentIds : GnSAdd(a)
    \/ \E a \in AgentIds : GnHSet(a)
    \/ \E t \in TaskIds, a \in AgentIds : Between(a, StartTask(t, a))
    \/ \E t \in TaskIds, a \in AgentIds, r \in Results :
          Between(a, CompleteTask(t, a, r))
    \/ CleanupOldTasks(0)

SpecConcurrent == Init /\ [][NextConcurrent]_vars

\* C4: two agents whose get_next_task calls interleave never both receive the same
\* task (no task is submitted twice and none is put back, so each task has one stay
\* in the pending index).
C4_NoTaskClaimedTwice ==
    \A a, b \in AgentIds :
        (a # b /\ frame[a].ret # NoTaskId) => frame[a].ret # frame[b].ret

(***************************************************************************)
(* The load balancer of src/load-balancer/main2fixed.py.                   *)
(*                                                                         *)
(* The registry self.agents is a Python dict: a sequence of Agent records  *)
(* with distinct ids, in insertion order.  A worker is an address that     *)
(* answers GET /health and POST /execute; what it answers is an input of   *)
(* the call.  Scores are kept in thousandths and success rates in percent, *)
(* so that score_agent is computed in integers.                            *)
(*                                                                         *)
(* Left out, because the program only reports them: discovery_count, the   *)
(* load balancer's last_discovery and the copy of the registry written to  *)
(* Redis.                                                                  *)
(***************************************************************************)
AGENT_DISCOVERY_INTERVAL == 30
HEALTH_CHECK_INTERVAL == 10
MAX_FAILED_ATTEMPTS == 3
AGENT_PORT == 8000
STALE_MINUTES == 5
BASE_SCORE == 100
SUCCESS_BONUS == 20
RESPONSE_PENALTY_CAP == 10
MS_PER_SECOND == 1000
PERCENT == 100
DEFAULT_SUCCESS_RATE == 50
DEFAULT_AVG_RESPONSE_TIME == 10
TOP_FRACTION == 3

service_names == <<"agent", "swarm-playwright-agent">>

AgentStatus == {"unknown", "healthy", "unhealthy", "unreachable"}

\* None, where the program holds an Agent
NoAgentRecord == [id |-> NoAgent]

\* a dict without keys
EmptyDict == [x \in {} |-> 0]

Max(a, b) == IF a >= b THEN a ELSE b

Min(a, b) == IF a <= b THEN a ELSE b

(***************************************************************************)
(* dict operations on the registry                                         *)
(***************************************************************************)
DictKeys(d) == {d[i].id : i \in 1 .. Len(d)}

DictHas(d, k) == k \in DictKeys(d)

\* d.get(k)
DictGet(d, k) ==
    IF DictHas(d, k) THEN d[CHOOSE i \in 1 .. Len(d) : d[i].id = k] ELSE NoAgentRecord

\* d[k] = v: an existing key keeps its place, a new key goes last
DictSet(d, k, v) ==
    IF DictHas(d, k)
    THEN [i \in 1 .. Len(d) |-> IF d[i].id = k THEN v ELSE d[i]]
    ELSE Append(d, v)

\* del d[k]
DictDel(d, k) == SelectSeq(d, LAMBDA r : r.id # k)

(***************************************************************************)
(* Workers and their answers                                               *)
(***************************************************************************)
\* url = f"http://{ip}:{port}"
Url(ip, port) == [ip |-> ip, port |-> port]

\* agent.url.replace("http://", "").split(":"); the addresses are IPv4 (AF_INET)
url_parts(url) == <<url.ip, url.port>>

\* the answer of a worker to GET /health: kind is "ok" for status 200 with a JSON
\* body, "http_error" for another status, "transport_error" for an exception
HealthResponse(kind, info, load) ==
    [kind |-> kind, agent_id |-> info.agent_id, capabilities |-> info.capabilities,
     metrics |-> info.metrics, load |-> load]

ResponseKinds == {"ok", "http_error", "transport_error"}

\* metrics.get(key, default)
MetricGet(m, key, default) == IF key \in DOMAIN m THEN m[key] ELSE default

\* check_agent: the Agent built from a 200 answer, None otherwise
check_agent(ip, port, service_name, response) ==
    IF response.kind = "ok"
    THEN [id |-> response.agent_id, url |-> Url(ip, port), status |-> "healthy",
          load |-> 0, last_seen |-> now, capabilities |-> response.capabilities,
          performance_metrics |-> response.metrics, failed_attempts |-> 0,
          max_failed_attempts |-> MAX_FAILED_ATTEMPTS]
    ELSE NoAgentRecord

(***************************************************************************)
(* discover_agents, as a function of the registry and of what the network  *)
(* answers during the cycle: world.ips[s] the addresses resolved for       *)
(* service_names[s], world.probe[ip] the answer to the probe of a resolved *)
(* address and world.reprobe[ip] the answer to a reconnection attempt      *)
(***************************************************************************)
\* the for loop over the results of gather for one service name
RECURSIVE probe_service(_, _, _, _, _)
probe_service(registry, ips, i, service_name, world) ==
    IF i > Len(ips) THEN registry
    ELSE LET result == check_agent(ips[i], AGENT_PORT, service_name, world.probe[ips[i]])
         IN probe_service(
                IF result # NoAgentRecord THEN DictSet(registry, result.id, result)
                ELSE registry,
                ips, i + 1, service_name, world)

\* mutant: an agent whose reconnection attempt fails is dropped at once
reconnect_agent_dropping(registry, agent, response) ==
    LET reconnected_agent ==
            check_agent(url_parts(agent.url)[1], url_parts(agent.url)[2], "reconnect",
                        response)
    IN IF reconnected_agent # NoAgentRecord
       THEN DictSet(registry, agent.id, [reconnected_agent EXCEPT !.id = agent.id])
       ELSE registry

\* what the reconnection attempt for one previously known agent leaves in the registry
reconnect_agent(registry, agent, response) ==
    LET parts == url_parts(agent.url) IN
    IF Len(parts) # 2 THEN registry
    ELSE LET reconnected_agent == check_agent(parts[1], parts[2], "reconnect", response)
         IN IF reconnected_agent # NoAgentRecord
            THEN DictSet(registry, agent.id, [reconnected_agent EXCEPT !.id = agent.id])
            ELSE LET missed == [agent EXCEPT !.failed_attempts = @ + 1] IN
                 IF missed.failed_attempts < missed.max_failed_attempts
                 THEN DictSet(registry, agent.id, [missed EXCEPT !.status = "unreachable"])
                 ELSE registry

\* the for loop over previous_agents
RECURSIVE preserve_previous(_, _, _, _)
preserve_previous(registry, previous_agents, i, world) ==
    IF i > Len(previous_agents) THEN registry
    ELSE LET agent == previous_agents[i] IN
         preserve_previous(
             IF DictHas(registry, agent.id) THEN registry
             ELSE reconnect_agent(registry, agent, world.reprobe[agent.url.ip]),
             previous_agents, i + 1, world)

discover_agents(registry, world) ==
    LET previous_agents == registry
        found1 == probe_service(<<>>, world.ips[1], 1, service_names[1], world)
        found2 == probe_service(found1, world.ips[2], 1, service_names[2], world)
    IN preserve_previous(found2, previous_agents, 1, world)

(***************************************************************************)
(* health_check_agents, as a function of the registry and of the answer of *)
(* each address to this cycle's probe                                      *)
(***************************************************************************)
\* mutant: a successful probe does not reset failed_attempts
health_probe_keeping_failures(agent, response) ==
    IF response.kind = "ok"
    THEN [agent EXCEPT !.status = "healthy", !.load = response.load,
                       !.last_seen = now, !.performance_metrics = response.metrics]
    ELSE IF response.kind = "http_error"
    THEN [agent EXCEPT !.status = "unhealthy", !.failed_attempts = @ + 1]
    ELSE [agent EXCEPT !.status = "unreachable", !.failed_attempts = @ + 1]

\* the fields of an agent after its probe
health_probe(agent, response) ==
    IF response.kind = "ok"
    THEN [agent EXCEPT !.status = "healthy", !.load = response.load,
                       !.last_seen = now, !.performance_metrics = response.metrics,
                       !.failed_attempts = 0]
    ELSE IF response.kind = "http_error"
    THEN [agent EXCEPT !.status = "unhealthy", !.failed_attempts = @ + 1]
    ELSE [agent EXCEPT !.status = "unreachable", !.failed_attempts = @ + 1]

\* timedelta(minutes=5), in seconds
stale_window == 60 * STALE_MINUTES

\* the removal test, which only the except branch reaches
removed_by_health_check(agent, response) ==
    /\ response.kind = "transport_error"
    /\ \/ now - agent.last_seen > stale_window
       \/ agent.failed_attempts >= agent.max_failed_attempts

\* the for loop over list(self.agents.items())
RECURSIVE check_each(_, _, _, _)
check_each(registry, snapshot, i, responses) ==
    IF i > Len(snapshot) THEN registry
    ELSE LET agent == snapshot[i]
             response == responses[agent.url.ip]
             probed == health_probe(agent, response)
         IN check_each(
                IF removed_by_health_check(probed, response)
                THEN DictDel(registry, agent.id)
                ELSE DictSet(registry, agent.id, probed),
                snapshot, i + 1, responses)

health_check_agents(registry, responses) ==
    IF registry = <<>> THEN registry ELSE check_each(registry, registry, 1, responses)

(***************************************************************************)
(* select_agent                                                            *)
(***************************************************************************)
\* score_agent, in thousandths
score_agent(agent) ==
    LET base_score == MS_PER_SECOND * (BASE_SCORE - agent.load)
        m == agent.performance_metrics
        success_rate == MetricGet(m, "success_rate", DEFAULT_SUCCESS_RATE)
        avg_response_time == MetricGet(m, "avg_response_time", DEFAULT_AVG_RESPONSE_TIME)
    IN IF m # EmptyDict
       THEN Max(base_score + (success_rate * SUCCESS_BONUS * MS_PER_SECOND) \div PERCENT
                    - Min(avg_response_time, RESPONSE_PENALTY_CAP * MS_PER_SECOND), 0)
       ELSE Max(base_score, 0)

\* mutant: the status of the agent is not looked at
capable_ignoring_status(agent, task_type) ==
    agent.capabilities = {} \/ task_type \in agent.capabilities

\* agent.status == "healthy" and (not agent.capabilities or task_type in capabilities)
capable(agent, task_type) ==
    /\ agent.status = "healthy"
    /\ agent.capabilities = {} \/ task_type \in agent.capabilities

\* the position list.sort(key, reverse=True) serves first: the highest key, the
\* earliest of equal keys
FirstBest(s, key(_)) ==
    CHOOSE i \in 1 .. Len(s) :
        \A j \in 1 .. Len(s) : key(s[j]) < key(s[i]) \/ (key(s[j]) = key(s[i]) /\ i <= j)

RemoveAt(s, i) == SubSeq(s, 1, i - 1) \o SubSeq(s, i + 1, Len(s))

\* scored_agents.sort(key=lambda x: x[1], reverse=True)
RECURSIVE sort_by_score(_)
sort_by_score(s) ==
    IF s = <<>> THEN <<>>
    ELSE LET i == FirstBest(s, score_agent)
         IN <<s[i]>> \o sort_by_score(RemoveAt(s, i))

\* mutant: the slice is taken from the end of the sorted list
top_agents_from_the_end(scored_agents) ==
    SubSeq(scored_agents,
           Len(scored_agents) + 1 - Max(1, Len(scored_agents) \div TOP_FRACTION),
           Len(scored_agents))

\* scored_agents[:max(1, len(scored_agents) // 3)]
top_agents(scored_agents) ==
    SubSeq(scored_agents, 1, Max(1, Len(scored_agents) \div TOP_FRACTION))

\* mutant: an explicit agent that is not available falls back to the automatic choice
select_agent_falling_back(registry, task_type, agent_id) ==
    IF agent_id # NoAgent /\ DictHas(registry, agent_id)
           /\ DictGet(registry, agent_id).status = "healthy"
    THEN {agent_id}
    ELSE LET capable_agents == SelectSeq(registry, LAMBDA a : capable(a, task_type))
         IN IF capable_agents = <<>> THEN {NoAgent}
            ELSE LET top == top_agents(sort_by_score(capable_agents))
                 IN {top[i].id : i \in 1 .. Len(top)}

\* the ids select_agent may return (NoAgent for None): random.choice picks any
\* one of top_agents
select_agent(registry, task_type, agent_id) ==
    IF agent_id # NoAgent
    THEN IF DictHas(registry, agent_id) /\ DictGet(registry, agent_id).status = "healthy"
         THEN {agent_id}
         ELSE {NoAgent}
    ELSE LET capable_agents == SelectSeq(registry, LAMBDA a : capable(a, task_type))
         IN IF capable_agents = <<>> THEN {NoAgent}
            ELSE LET top == top_agents(sort_by_score(capable_agents))
                 IN {top[i].id : i \in 1 .. Len(top)}

(***************************************************************************)
(* execute_task and the POST /execute handler.  The value is the registry  *)
(* left behind, the answer and the execute requests sent to workers.       *)
(***************************************************************************)
execute_task(registry, agent, task, kind) ==
    [agents |-> IF kind = "ok"
                THEN DictSet(registry, agent.id, [agent EXCEPT !.load = Max(0, @ - 1)])
                ELSE registry,
     result |-> [success |-> kind = "ok", agent_id |-> agent.id],
     requests |-> <<agent.url>>]

\* POST /execute with the agent select_agent returned; the HTTPException raised for
\* "no agent" is caught by `except Exception` and raised again with status 500
post_execute(registry, request, chosen, kind) ==
    IF chosen = NoAgent
    THEN [agents |-> registry, status_code |-> 500, result |-> [success |-> FALSE,
          agent_id |-> NoAgent], requests |-> <<>>]
    ELSE LET done == execute_task(registry, DictGet(registry, chosen), request.task, kind)
         IN [agents |-> done.agents, status_code |-> 200, result |-> done.result,
             requests |-> done.requests]

(***************************************************************************)
(* Actions of the load balancer, each a whole call                         *)
(***************************************************************************)
\* clock ticks of one run of the load balancer
MaxLbTicks == 2

Ips == {"10.0.0.1", "10.0.0.2"}

\* what the worker at an address reports about itself
WorkerInfo(ip) ==
    IF ip = "10.0.0.1"
    THEN [agent_id |-> "w1", capabilities |-> {}, metrics |-> EmptyDict]
    ELSE [agent_id |-> "w2", capabilities |-> {"navigate"},
          metrics |-> [success_rate |-> 90, avg_response_time |-> 500]]

WorkerIds == {WorkerInfo(ip).agent_id : ip \in Ips}

\* the worker reports len(active_tasks) as its load
HealthLoads == {2}

\* the answers an address may give to GET /health
HealthAnswers(ip) ==
    {HealthResponse("ok", WorkerInfo(ip), l) : l \in HealthLoads}
        \cup {HealthResponse(k, WorkerInfo(ip), 0) : k \in ResponseKinds \ {"ok"}}

ProbeAnswers(ip, kinds) == {HealthResponse(k, WorkerInfo(ip), 0) : k \in kinds}

\* the addresses the two service names may resolve to
Resolutions ==
    {<<ips, <<>>>> : ips \in {<<>>, <<"10.0.0.1">>, <<"10.0.0.1", "10.0.0.2">>,
                              <<"10.0.0.2", "10.0.0.1">>}}
        \cup {<<<<>>, <<"10.0.0.2">>>>}

Worlds ==
    {[ips |-> r, probe |-> p, reprobe |-> q] :
        r \in Resolutions,
        p \in {f \in [Ips -> UNION {ProbeAnswers(ip, {"ok", "http_error"}) : ip \in Ips}] :
                  \A ip \in Ips : f[ip] \in ProbeAnswers(ip, {"ok", "http_error"})},
        q \in {f \in [Ips -> UNION {ProbeAnswers(ip, {"ok", "transport_error"}) : ip \in Ips}] :
                  \A ip \in Ips : f[ip] \in ProbeAnswers(ip, {"ok", "transport_error"})}}

HealthRounds ==
    {f \in [Ips -> UNION {HealthAnswers(ip) : ip \in Ips}] :
        \A ip \in Ips : f[ip] \in HealthAnswers(ip)}

TaskTypes == {"navigate", "search"}

\* the agent_id of an ExecuteRequest: none, a worker's id, an id no worker has
RequestedAgents == {NoAgent} \cup WorkerIds \cup {"w9"}

Requests == {[agent_id |-> a, task |-> [type |-> t]] : a \in RequestedAgents, t \in TaskTypes}

LbSequential ==
    UNCHANGED <<now, store_vars, pc, frame, agent_pool, last_discovery, selected, lb_pc,
                lb_frame, swarm, loops,
      active_tasks, executing>>

\* time passes between calls of the load balancer
LbTick ==
    /\ now + 6 * AGENT_DISCOVERY_INTERVAL
           <= Epoch + 6 * AGENT_DISCOVERY_INTERVAL * MaxLbTicks
    /\ now' = now + 6 * AGENT_DISCOVERY_INTERVAL
    /\ UNCHANGED <<store_vars, pc, frame, lb_vars>>

DiscoverAgents(world) ==
    /\ agents' = discover_agents(agents, world)
    /\ LbSequential

\* the model stops counting failed probes of one agent past MAX_FAILED_ATTEMPTS + 1
ProbesCounted(registry) ==
    \A i \in 1 .. Len(registry) :
        registry[i].failed_attempts < MAX_FAILED_ATTEMPTS + 1 + MaxExtraFails

HealthCheckAgents(responses) ==
    /\ ProbesCounted(agents)
    /\ agents' = health_check_agents(agents, responses)
    /\ LbSequential

PostExecute(request, kind) ==
    /\ \E chosen \in select_agent(agents, request.task.type, request.agent_id) :
          agents' = post_execute(agents, request, chosen, kind).agents
    /\ LbSequential

NextLB ==
    \/ LbTick
    \/ \E world \in Worlds : DiscoverAgents(world)
    \/ \E responses \in HealthRounds : HealthCheckAgents(responses)
    \/ \E request \in Requests, kind \in ResponseKinds : PostExecute(request, kind)

SpecLB == Init /\ [][NextLB]_vars

IsAgent(agent) ==
    /\ agent.id \in WorkerIds
    /\ agent.url.ip \in Ips
    /\ agent.status \in AgentStatus
    /\ agent.load \in Nat
    /\ agent.last_seen \in Nat
    /\ agent.failed_attempts \in Nat

LbTypeOK ==
    /\ \A i \in 1 .. Len(agents) : IsAgent(agents[i])
    /\ \A i, j \in 1 .. Len(agents) : agents[i].id = agents[j].id => i = j
    /\ \A i \in 1 .. Len(agents) : agents[i].status = "healthy" => agents[i].failed_attempts = 0

(***************************************************************************)
(* Properties of the load balancer                                         *)
(***************************************************************************)
ExplicitAgents == RequestedAgents \ {NoAgent}

Registered(registry) == {registry[i] : i \in 1 .. Len(registry)}

\* C12: select_agent called with an explicit agent id returns that agent if it is in
\* the registry with status healthy and None otherwise, never another agent.
C12_ExplicitAgentOrNone ==
    \A a \in ExplicitAgents, t \in TaskTypes :
        select_agent(agents, t, a) =
            IF \E agent \in Registered(agents) : agent.id = a /\ agent.status = "healthy"
            THEN {a} ELSE {NoAgent}

\* an explicit request for a registered agent that is not healthy is answered None
\* while a healthy agent that can handle the task is registered, and an explicit
\* request for that healthy agent is answered with it
C12_Witness ==
    \E u, h \in Registered(agents) :
        /\ u.status # "healthy"
        /\ capable(h, "navigate")
        /\ select_agent(agents, "navigate", u.id) = {NoAgent}
        /\ select_agent(agents, "navigate", h.id) = {h.id}
        /\ select_agent(agents, "navigate", NoAgent) = {h.id}

\* every probe of the agent's address in the cycle fails
ProbeFails(agent, world) ==
    /\ world.reprobe[agent.url.ip].kind # "ok"
    /\ agent.url.ip \in SeqToSet(world.ips[1]) \cup SeqToSet(world.ips[2]) =>
           world.probe[agent.url.ip].kind # "ok"

\* C17: an agent registered as healthy whose probes fail in a discovery cycle is in
\* the registry after the cycle, with failed_attempts one higher; an agent known
\* before the cycle is absent after it only if its failed_attempts, counted up by
\* this cycle's failure, has reached max_failed_attempts.
C17_DiscoveryKeepsFailingAgents ==
    \A world \in Worlds :
        LET after == discover_agents(agents, world) IN
        \A agent \in Registered(agents) :
            /\ (agent.status = "healthy" /\ ProbeFails(agent, world)) =>
                   /\ DictHas(after, agent.id)
                   /\ DictGet(after, agent.id).failed_attempts = agent.failed_attempts + 1
            /\ ~DictHas(after, agent.id) =>
                   /\ ProbeFails(agent, world)
                   /\ agent.failed_attempts + 1 >= agent.max_failed_attempts

\* the registry holds a healthy agent that a cycle of failed probes keeps as
\* unreachable with one failure counted, and an agent one failure short of
\* max_failed_attempts that the same cycle removes
C17_Witness ==
    \E world \in Worlds :
        \E kept, dropped \in Registered(agents) :
            /\ kept.status = "healthy"
            /\ ProbeFails(kept, world)
            /\ DictGet(discover_agents(agents, world), kept.id).status = "unreachable"
            /\ DictGet(discover_agents(agents, world), kept.id).failed_attempts = 1
            /\ dropped.failed_attempts + 1 = dropped.max_failed_attempts
            /\ ~DictHas(discover_agents(agents, world), dropped.id)

\* C18: after a health_check_agents cycle no agent is left in the registry with
\* failed_attempts >= max_failed_attempts or with last_seen more than five minutes
\* old, whether its probes failed by transport error or by a non-200 answer.
C18_HealthCheckEvicts ==
    \A responses \in HealthRounds :
        \A agent \in Registered(health_check_agents(agents, responses)) :
            /\ agent.failed_attempts < agent.max_failed_attempts
            /\ now - agent.last_seen <= stale_window

\* C19: in a health-check cycle a successful probe leaves the agent registered as
\* healthy with failed_attempts 0 and the load, metrics and time of the answer; a
\* failed probe leaves it, if it stays registered, unhealthy or unreachable with
\* failed_attempts one higher and last_seen as before.
C19_ProbeUpdatesAgent ==
    \A responses \in HealthRounds :
        LET after == health_check_agents(agents, responses) IN
        \A agent \in Registered(agents) :
            LET response == responses[agent.url.ip]
                probed == DictGet(after, agent.id)
            IN /\ response.kind = "ok" =>
                      /\ DictHas(after, agent.id)
                      /\ probed.status = "healthy"
                      /\ probed.failed_attempts = 0
                      /\ probed.load = response.load
                      /\ probed.performance_metrics = response.metrics
                      /\ probed.last_seen = now
               /\ (response.kind # "ok" /\ DictHas(after, agent.id)) =>
                      /\ probed.status =
                             IF response.kind = "http_error" THEN "unhealthy"
                             ELSE "unreachable"
                      /\ probed.failed_attempts = agent.failed_attempts + 1
                      /\ probed.last_seen = agent.last_seen

\* the registry holds an agent with failures counted and an old last_seen that a
\* successful probe resets and refreshes, and a healthy agent that a failed probe
\* of the same cycle leaves registered with one failure and its old last_seen
C19_Witness ==
    \E responses \in HealthRounds :
        \E up, down \in Registered(agents) :
            /\ up.failed_attempts > 0 /\ up.last_seen < now /\ up.load # 2
            /\ responses[up.url.ip].kind = "ok"
            /\ DictGet(health_check_agents(agents, responses), up.id).last_seen = now
            /\ down.status = "healthy" /\ down.last_seen < now
            /\ responses[down.url.ip].kind = "transport_error"
            /\ DictGet(health_check_agents(agents, responses), down.id).failed_attempts = 1

\* C20: for every dispatch by execute_task the load of the agent is one lower when the
\* call returns, on every outcome: 200, another status, transport error or timeout.
C20_LoadReleasedOnEveryOutcome ==
    \A agent \in Registered(agents), t \in TaskTypes, kind \in ResponseKinds :
        (agent.status = "healthy" /\ agent.load > 0) =>
            DictGet(execute_task(agents, agent, [type |-> t], kind).agents, agent.id).load
                = agent.load - 1

(***************************************************************************)
(* SpecSelect: select_agent applied to registries of up to MaxSelectAgents *)
(* agents, healthy or unreachable, of load 20 or 90 and equal metrics      *)
(***************************************************************************)
\* agents in a registry select_agent is applied to
MaxSelectAgents == 6

SelectIds == <<"s1", "s2", "s3", "s4", "s5", "s6", "s7", "s8">>

ScenarioCLoads == {20, 90}

ScenarioCMetrics == [success_rate |-> 90, avg_response_time |-> 500]

SelectAgentRecord(i, status, load) ==
    [id |-> SelectIds[i], url |-> Url(SelectIds[i], AGENT_PORT), status |-> status,
     load |-> load, last_seen |-> Epoch, capabilities |-> {},
     performance_metrics |-> ScenarioCMetrics,
     failed_attempts |-> IF status = "healthy" THEN 0 ELSE 1,
     max_failed_attempts |-> MAX_FAILED_ATTEMPTS]

SelectRegistries ==
    UNION {{[i \in 1 .. n |-> SelectAgentRecord(i, c[i][1], c[i][2])] :
               c \in [1 .. n -> {"healthy", "unreachable"} \X ScenarioCLoads]} :
           n \in 1 .. MaxSelectAgents}

InitSelect ==
    /\ InitQueue
    /\ InitCallers
    /\ agents \in SelectRegistries

\* a call of select_agent; its return value is kept
SelectAgent(task_type, agent_id) ==
    /\ selected' \in select_agent(agents, task_type, agent_id)
    /\ UNCHANGED <<now, store_vars, pc, frame, agents, agent_pool, last_discovery, lb_pc,
                   lb_frame, swarm, loops,
      active_tasks, executing>>

NextSelect ==
    \E t \in TaskTypes : SelectAgent(t, NoAgent)

SpecSelect == InitSelect /\ [][NextSelect]_vars

Candidates(registry, task_type) == {a \in Registered(registry) : capable(a, task_type)}

\* the registry of Scenario C: two healthy agents, equal metrics, loads 90 and 20
ScenarioC(registry) ==
    /\ Len(registry) = 2
    /\ \A a \in Registered(registry) : a.status = "healthy"
    /\ registry[1].performance_metrics = registry[2].performance_metrics
    /\ {registry[1].load, registry[2].load} = {20, 90}

\* C14: the agent select_agent returns is among the top max(1, n div 3) of the n
\* candidates by descending score: fewer than that many candidates score strictly
\* higher, and no candidate outside the top subset scores higher than it; in
\* Scenario C the agent of load 20 scores higher and is the one returned.
C14_ChosenAmongTopThird ==
    \A t \in TaskTypes :
        LET candidates == Candidates(agents, t)
            width == Max(1, Cardinality(candidates) \div 3)
            returned == select_agent(agents, t, NoAgent)
        IN /\ \A r \in returned \ {NoAgent} :
                 LET chosen == DictGet(agents, r)
                 IN /\ chosen \in candidates
                    /\ Cardinality({c \in candidates :
                                       score_agent(c) > score_agent(chosen)}) < width
           /\ Cardinality(returned) <= width
           /\ \A r \in returned \ {NoAgent} :
                 \A c \in candidates :
                     c.id \notin returned =>
                         score_agent(DictGet(agents, r)) >= score_agent(c)
           /\ ScenarioC(agents) =>
                 \E light, heavy \in Registered(agents) :
                     /\ light.load = 20 /\ heavy.load = 90
                     /\ score_agent(light) > score_agent(heavy)
                     /\ returned = {light.id}

\* six healthy candidates, two of load 20: the top third is those two, either may
\* be returned, and the call returned the second of them
C14_Witness ==
    /\ Len(agents) = 6
    /\ Cardinality(Candidates(agents, "navigate")) = 6
    /\ Cardinality({a \in Registered(agents) : a.load = 20}) = 2
    /\ select_agent(agents, "navigate", NoAgent)
           = {a.id : a \in {b \in Registered(agents) : b.load = 20}}
    /\ selected \in select_agent(agents, "navigate", NoAgent)
    /\ \E a \in Registered(agents) : a.load = 20 /\ a.id # selected /\ a.id = agents[1].id

(***************************************************************************)
(* The coordinator of src/coordinator/mcp_server.py.                       *)
(*                                                                         *)
(* agent_pool is a Python dict of models_pydantic.Agent objects, built     *)
(* from the answer of the load balancer to GET /agents.  The coordinator   *)
(* reaches workers only through POST /execute of the load balancer.        *)
(* Elapsed times are taken to be positive, as ExecutionResult requires.    *)
(***************************************************************************)
MAX_CONCURRENT_TASKS == 5
STALE_INTERVALS == 2

discovery_interval == AGENT_DISCOVERY_INTERVAL

\* the outcome of Agent(**agent_data) when a validator rejects the data
ValidationError == [id |-> "ValidationError"]

\* agent_data.get(key, default)
FieldGet(agent_data, key, default) ==
    IF key \in DOMAIN agent_data THEN agent_data[key] ELSE default

\* Agent(**agent_data): the fields the coordinator's model declares are kept, the
\* others are ignored, max_concurrent_tasks and current_tasks take their defaults
\* when the data do not give them.  The validator of current_tasks runs only on a
\* value that is given, after max_concurrent_tasks has been set.
Agent(agent_data) ==
    LET max_concurrent_tasks ==
            FieldGet(agent_data, "max_concurrent_tasks", MAX_CONCURRENT_TASKS)
    IN IF "current_tasks" \in DOMAIN agent_data
              /\ agent_data.current_tasks > max_concurrent_tasks
       THEN ValidationError
       ELSE [id |-> agent_data.id, url |-> agent_data.url, status |-> agent_data.status,
             load |-> agent_data.load, last_seen |-> agent_data.last_seen,
             capabilities |-> agent_data.capabilities,
             max_concurrent_tasks |-> max_concurrent_tasks,
             current_tasks |-> FieldGet(agent_data, "current_tasks", 0),
             performance_metrics |-> agent_data.performance_metrics]

is_available(agent) ==
    /\ agent.status = "healthy"
    /\ agent.current_tasks < agent.max_concurrent_tasks

\* (current_tasks / max_concurrent_tasks) * 100, in thousandths
load_percentage(agent) ==
    (agent.current_tasks * PERCENT * MS_PER_SECOND) \div agent.max_concurrent_tasks

can_handle_task(agent, task_type) ==
    agent.capabilities = {} \/ task_type \in agent.capabilities

\* the answer of the load balancer to GET /agents
get_agents(kind, registry) ==
    [kind |-> kind, agents |-> IF kind = "ok" THEN registry ELSE <<>>]

\* the loop that fills new_agents
RECURSIVE new_agents(_, _, _)
new_agents(pool, agents_data, i) ==
    IF i > Len(agents_data) THEN pool
    ELSE LET agent == Agent(agents_data[i])
         IN new_agents(IF agent = ValidationError THEN pool
                       ELSE DictSet(pool, agent.id, agent),
                       agents_data, i + 1)

\* discover_agents_once: a 200 answer replaces the pool, anything else leaves it
discover_agents_once(pool, last, response) ==
    IF response.kind = "ok"
    THEN [agent_pool |-> new_agents(<<>>, response.agents, 1), last_discovery |-> now,
          ret |-> TRUE]
    ELSE [agent_pool |-> pool, last_discovery |-> last, ret |-> FALSE]

\* the score_agent of the coordinator's select_agent, in thousandths, for an agent
\* without performance metrics
coordinator_score_agent(agent) == Max(MS_PER_SECOND * BASE_SCORE - load_percentage(agent), 0)

\* score_agent reads performance_metrics.success_rate of a dict: AttributeError
score_agent_raises(agent) == agent.performance_metrics # EmptyDict

\* the coordinator's select_agent: the pool and last_discovery it leaves, the id of
\* the agent it returns (NoAgent for None), and whether it raised instead
coordinator_select_agent(pool, last, task_type, response) ==
    LET found == IF pool = <<>> \/ now - last > discovery_interval * STALE_INTERVALS
                 THEN discover_agents_once(pool, last, response)
                 ELSE [agent_pool |-> pool, last_discovery |-> last, ret |-> FALSE]
        available_agents ==
            SelectSeq(found.agent_pool,
                      LAMBDA a : is_available(a) /\ can_handle_task(a, task_type))
        raised == \E i \in 1 .. Len(available_agents) :
                      score_agent_raises(available_agents[i])
    IN [agent_pool |-> found.agent_pool, last_discovery |-> found.last_discovery,
        raised |-> raised,
        ret |-> IF available_agents = <<>> \/ raised THEN NoAgent
                ELSE available_agents[FirstBest(available_agents,
                                                coordinator_score_agent)].id]

\* the time a call has taken when it builds its result: more than nothing
PositiveElapsed == 1

\* ExecutionResult(task_id=..., success=..., error=..., execution_time=...,
\* agent_id=...): execution_time is a PositiveFloat, so a value that is not above 0
\* is rejected with a ValidationError
ExecutionResult(task_id, success, error, execution_time, agent_id) ==
    IF execution_time <= 0 THEN ValidationError
    ELSE [task_id |-> task_id, success |-> success, error |-> error,
          agent_id |-> agent_id]

\* no ExecutionResult: the call raised
NoExecutionResult ==
    [task_id |-> NoResult, success |-> FALSE, error |-> NoResult, agent_id |-> NoAgent]

\* the try block of the coordinator's execute_task, for the agent select_agent
\* returned.  reachable: the POST reaches the load balancer; kind: what the worker
\* answers to the load balancer.
coordinator_dispatch(task, agent_id, registry, reachable, kind) ==
    IF ~reachable
    THEN [agents |-> registry,
          result |-> ExecutionResult(task.id, FALSE, "transport_error", PositiveElapsed,
                                     agent_id),
          task |-> [task EXCEPT !.status = "failed", !.agent_id = agent_id,
                                !.error = "transport_error"],
          lb_requests |-> <<agent_id>>, requests |-> <<>>]
    ELSE \* an explicit agent_id leaves the load balancer one possible choice
         LET served == post_execute(registry, [agent_id |-> agent_id, task |-> task],
                           CHOOSE c \in select_agent(registry, task.type, agent_id) : TRUE,
                           kind)
             ok == served.status_code = 200
         IN [agents |-> served.agents,
             result |-> ExecutionResult(task.id, ok, IF ok THEN NoResult ELSE "Erreur HTTP",
                                        PositiveElapsed, agent_id),
             task |-> [task EXCEPT !.status = IF ok THEN "completed" ELSE "failed",
                                   !.agent_id = agent_id,
                                   !.error = IF ok THEN NoError ELSE "Erreur HTTP"],
             lb_requests |-> <<agent_id>>, requests |-> served.requests]

\* mutant: the task is posted to the load balancer whether or not an agent was found
coordinator_execute_task_posting(pool, last, task, response, registry, reachable, kind) ==
    LET sel == coordinator_select_agent(pool, last, task.type, response)
        sent == coordinator_dispatch(task, sel.ret, registry, TRUE, kind)
    IN [agent_pool |-> sel.agent_pool, last_discovery |-> sel.last_discovery,
        agents |-> sent.agents, raised |-> sel.raised, result |-> sent.result,
        task |-> sent.task, lb_requests |-> sent.lb_requests,
        requests |-> sent.requests]

\* the coordinator's execute_task.  The value holds what the call leaves in the
\* pool and in the registry of the load balancer, the ExecutionResult, the Task
\* object as the call leaves it, whether the call raised, the POST /execute
\* requests sent to the load balancer and the execute requests the load balancer
\* sent to workers.
coordinator_execute_task(pool, last, task, response, registry, reachable, kind) ==
    LET sel == coordinator_select_agent(pool, last, task.type, response)
        quiet == [agent_pool |-> sel.agent_pool, last_discovery |-> sel.last_discovery,
                  agents |-> registry, raised |-> FALSE, result |-> NoExecutionResult,
                  task |-> task, lb_requests |-> <<>>, requests |-> <<>>]
    IN IF sel.raised THEN [quiet EXCEPT !.raised = TRUE]
       ELSE IF sel.ret = NoAgent
       THEN [quiet EXCEPT !.result = ExecutionResult(task.id, FALSE,
                                         "Aucun agent disponible", PositiveElapsed,
                                         NoAgent)]
       ELSE LET sent == coordinator_dispatch(task, sel.ret, registry, reachable, kind)
            IN [quiet EXCEPT !.agents = sent.agents, !.result = sent.result,
                             !.task = sent.task, !.lb_requests = sent.lb_requests,
                             !.requests = sent.requests]

(***************************************************************************)
(* SpecCoord: the coordinator in front of the load balancer                *)
(***************************************************************************)
\* the networks of SpecCoord: no address or both addresses resolve, every probe is
\* answered, reconnection attempts succeed or fail
CoordWorlds ==
    {w \in Worlds :
        /\ w.ips \in {<<<<>>, <<>>>>, <<<<"10.0.0.1", "10.0.0.2">>, <<>>>>}
        /\ \A ip \in Ips : w.probe[ip].kind = "ok"}

CoordSequential == UNCHANGED <<now, store_vars, pc, frame, lb_pc, lb_frame, swarm, loops,
      active_tasks, executing>>

\* get_status, or one round of the coordinator's background discovery
DiscoverAgentsOnce(kind) ==
    LET found == discover_agents_once(agent_pool, last_discovery, get_agents(kind, agents))
    IN /\ agent_pool' = found.agent_pool
       /\ last_discovery' = found.last_discovery
       /\ UNCHANGED <<agents, selected>>
       /\ CoordSequential

CoordinatorExecuteTask(task, answer, reachable, kind) ==
    LET run == coordinator_execute_task(agent_pool, last_discovery, task,
                                        get_agents(answer, agents), agents, reachable, kind)
    IN /\ agent_pool' = run.agent_pool
       /\ last_discovery' = run.last_discovery
       /\ agents' = run.agents
       /\ selected' = run.result.agent_id
       /\ CoordSequential

\* models_pydantic.Task(id=..., type=..., max_retries=..., metadata=...), the other
\* fields at their defaults
PydanticTask(id, type, max_retries, metadata) ==
    [id |-> id, type |-> type, status |-> "pending", agent_id |-> NoAgent,
     retry_count |-> 0, max_retries |-> max_retries, metadata |-> metadata,
     error |-> NoError]

CoordTasks == {PydanticTask("t1", t, MAX_RETRIES, EmptyDict) : t \in TaskTypes}

NextCoord ==
    \/ LbTick
    \/ \E world \in CoordWorlds : DiscoverAgents(world)
    \/ \E kind \in ResponseKinds : DiscoverAgentsOnce(kind)
    \/ \E task \in CoordTasks, answer \in ResponseKinds, reachable \in BOOLEAN,
          kind \in ResponseKinds : CoordinatorExecuteTask(task, answer, reachable, kind)

SpecCoord == Init /\ [][NextCoord]_vars

(***************************************************************************)
(* Properties of the coordinator in front of the load balancer             *)
(***************************************************************************)
\* the agents a task of this type may be given to
Eligible(registry, task_type) ==
    {agent \in Registered(registry) :
        /\ agent.status = "healthy"
        /\ agent.capabilities = {} \/ task_type \in agent.capabilities}

\* C13: without an explicit agent id, select_agent of the load balancer and
\* select_agent of the coordinator return only an agent that is healthy and whose
\* capabilities are empty or contain the task type, and return None when no
\* registered agent is such an agent.
C13_SelectsHealthyCapableOrNone ==
    \A t \in TaskTypes :
        /\ select_agent(agents, t, NoAgent) \subseteq
               IF Eligible(agents, t) = {} THEN {NoAgent}
               ELSE {agent.id : agent \in Eligible(agents, t)}
        /\ \A answer \in ResponseKinds :
               LET sel == coordinator_select_agent(agent_pool, last_discovery, t,
                                                   get_agents(answer, agents))
                   eligible == Eligible(sel.agent_pool, t)
               IN /\ eligible = {} => (~sel.raised /\ sel.ret = NoAgent)
                  /\ sel.ret # NoAgent => sel.ret \in {agent.id : agent \in eligible}

\* the coordinator has been given one agent of a pool that also holds an agent that
\* is not healthy, while the registry of the load balancer holds a healthy agent
\* that cannot handle every task type next to one that is not healthy
C13_Witness ==
    /\ selected \in DictKeys(agent_pool)
    /\ \E agent \in Registered(agent_pool) : agent.status # "healthy"
    /\ \E agent \in Registered(agents) : agent.status # "healthy"
    /\ \E t \in TaskTypes : Eligible(agents, t) # {} /\ Eligible(agents, t) # Registered(agents)

\* a discovery cycle of the load balancer that finds no agent: no resolved address
\* answers its probe and no agent known before is kept
FindsNothing(registry, world) ==
    /\ \A s \in 1 .. Len(service_names) : \A i \in 1 .. Len(world.ips[s]) :
           world.probe[world.ips[s][i]].kind # "ok"
    /\ \A agent \in Registered(registry) :
           /\ ProbeFails(agent, world)
           /\ agent.failed_attempts + 1 >= agent.max_failed_attempts

\* C15 (Scenario D): a discovery cycle of the load balancer that finds no agent
\* leaves an empty registry, and only such a cycle does; on an empty registry
\* select_agent returns None and POST /execute sends no request to a worker; when
\* the coordinator's pool is empty after its discovery, select_agent returns None
\* and execute_task returns the failure "Aucun agent disponible" without raising
\* and without any execute request to the load balancer or to a worker.
C15_ScenarioD ==
    /\ \A world \in Worlds :
           FindsNothing(agents, world) <=> discover_agents(agents, world) = <<>>
    /\ agents = <<>> =>
           \A request \in Requests, kind \in ResponseKinds :
               /\ select_agent(agents, request.task.type, request.agent_id) = {NoAgent}
               /\ post_execute(agents, request, NoAgent, kind).requests = <<>>
    /\ \A task \in CoordTasks, answer \in ResponseKinds, reachable \in BOOLEAN,
          kind \in ResponseKinds :
           LET sel == coordinator_select_agent(agent_pool, last_discovery, task.type,
                                               get_agents(answer, agents))
               run == coordinator_execute_task(agent_pool, last_discovery, task,
                          get_agents(answer, agents), agents, reachable, kind)
           IN sel.agent_pool = <<>> =>
                  /\ ~sel.raised /\ sel.ret = NoAgent
                  /\ ~run.raised
                  /\ run.result = [task_id |-> task.id, success |-> FALSE,
                                   error |-> "Aucun agent disponible",
                                   agent_id |-> NoAgent]
                  /\ run.lb_requests = <<>>
                  /\ run.requests = <<>>

\* later than the start, the load balancer's registry is empty and the coordinator,
\* whose discovery has just been answered with no agent, has handed out none
C15_Witness ==
    /\ now > Epoch
    /\ agents = <<>>
    /\ agent_pool = <<>>
    /\ last_discovery = now
    /\ selected = NoAgent

(***************************************************************************)
(* SpecDiscovery: discover_agents called by the background discovery loop  *)
(* and by POST /discover, one step per await.  Each caller runs the        *)
(* coroutine on the one event loop, so the steps of one call interleave    *)
(* with the steps of the other wherever the coroutine awaits.              *)
(***************************************************************************)
\* the addresses one service name may resolve to
DiscoveryIps == {<<>>, <<"10.0.0.1">>, <<"10.0.0.1", "10.0.0.2">>}

\* the answers the addresses give to the probes of one gather
ProbeRounds ==
    {f \in [Ips -> UNION {ProbeAnswers(ip, {"ok", "http_error"}) : ip \in Ips}] :
        \A ip \in Ips : f[ip] \in ProbeAnswers(ip, {"ok", "http_error"})}

DiscoverySequential == UNCHANGED <<now, store_vars, pc, frame, agent_pool, last_discovery,
                                   selected, swarm, loops,
      active_tasks, executing>>

\* the position in previous_agents, from i on, of the first agent that is not in
\* the registry; Len + 1 when there is none
RECURSIVE next_missing(_, _, _)
next_missing(previous_agents, registry, i) ==
    IF i > Len(previous_agents) \/ ~DictHas(registry, previous_agents[i].id) THEN i
    ELSE next_missing(previous_agents, registry, i + 1)

\* after the for body of one service name: the next service name, or the loop over
\* previous_agents
AfterService(c) ==
    IF lb_frame[c].service < Len(service_names)
    THEN /\ lb_pc' = [lb_pc EXCEPT ![c] = "resolve"]
         /\ lb_frame' = [lb_frame EXCEPT ![c].service = @ + 1, ![c].ips = <<>>]
    ELSE /\ lb_pc' = [lb_pc EXCEPT ![c] = "reconnect"]
         /\ lb_frame' = [lb_frame EXCEPT ![c].ips = <<>>, ![c].i = 1]

\* previous_agents = self.agents.copy(); self.agents = {}; up to the first await
DaStart(c) ==
    /\ lb_pc[c] = "idle"
    /\ lb_pc' = [lb_pc EXCEPT ![c] = "resolve"]
    /\ lb_frame' = [lb_frame EXCEPT ![c] = [previous_agents |-> agents, service |-> 1,
                                            ips |-> <<>>, i |-> 0]]
    /\ agents' = <<>>
    /\ DiscoverySequential

\* ips = await self.resolve_service_ips(service_name); without addresses there is
\* no gather
DaResolve(c, ips) ==
    /\ lb_pc[c] = "resolve"
    /\ IF ips = <<>> THEN AfterService(c)
       ELSE /\ lb_pc' = [lb_pc EXCEPT ![c] = "probe"]
            /\ lb_frame' = [lb_frame EXCEPT ![c].ips = ips]
    /\ UNCHANGED agents
    /\ DiscoverySequential

\* results = await asyncio.gather(*tasks); the loop over the results
DaProbe(c, probe) ==
    /\ lb_pc[c] = "probe"
    /\ agents' = probe_service(agents, lb_frame[c].ips, 1,
                               service_names[lb_frame[c].service], [probe |-> probe])
    /\ AfterService(c)
    /\ DiscoverySequential

\* the for loop over previous_agents up to `await self.check_agent(ip, port,
\* "reconnect")` for the next agent that is not in the registry
DaReconnect(c) ==
    LET j == next_missing(lb_frame[c].previous_agents, agents, lb_frame[c].i) IN
    /\ lb_pc[c] = "reconnect"
    /\ j <= Len(lb_frame[c].previous_agents)
    /\ lb_pc' = [lb_pc EXCEPT ![c] = "reconnecting"]
    /\ lb_frame' = [lb_frame EXCEPT ![c].i = j]
    /\ UNCHANGED agents
    /\ DiscoverySequential

\* the answer to the reconnection attempt, and what it leaves in the registry
DaReconnected(c, kind) ==
    LET agent == lb_frame[c].previous_agents[lb_frame[c].i] IN
    /\ lb_pc[c] = "reconnecting"
    /\ agents' = reconnect_agent(agents, agent,
                                 HealthResponse(kind, WorkerInfo(agent.url.ip), 0))
    /\ lb_pc' = [lb_pc EXCEPT ![c] = "reconnect"]
    /\ lb_frame' = [lb_frame EXCEPT ![c].i = @ + 1]
    /\ DiscoverySequential

\* the loop over previous_agents is exhausted: the save to Redis, and the return
DaFinish(c) ==
    /\ lb_pc[c] = "reconnect"
    /\ next_missing(lb_frame[c].previous_agents, agents, lb_frame[c].i)
           > Len(lb_frame[c].previous_agents)
    /\ lb_pc' = [lb_pc EXCEPT ![c] = "idle"]
    /\ lb_frame' = [lb_frame EXCEPT ![c] = NullDiscovery]
    /\ UNCHANGED agents
    /\ DiscoverySequential

NextDiscovery ==
    \/ \E c \in DiscoveryCallers : DaStart(c)
    \/ \E c \in DiscoveryCallers, ips \in DiscoveryIps : DaResolve(c, ips)
    \/ \E c \in DiscoveryCallers, probe \in ProbeRounds : DaProbe(c, probe)
    \/ \E c \in DiscoveryCallers : DaReconnect(c)
    \/ \E c \in DiscoveryCallers, kind \in {"ok", "transport_error"} : DaReconnected(c, kind)
    \/ \E c \in DiscoveryCallers : DaFinish(c)

SpecDiscovery == Init /\ [][NextDiscovery]_vars

\* C16: discovery is single-flight: at no time are two executions of
\* discover_agents in progress at once.
C16_DiscoveryIsSingleFlight ==
    \A c, d \in DiscoveryCallers : (lb_pc[c] # "idle" /\ lb_pc[d] # "idle") => c = d

(***************************************************************************)
(* SpecPool: the coordinator's discovery, answered by a server that also   *)
(* reports current_tasks and max_concurrent_tasks for its agents           *)
(***************************************************************************)
\* a value the reported data may leave out: <<>> when it is left out, <<v>> when given
ReportedCurrentTasks == {<<>>, <<0>>, <<3>>, <<7>>}

ReportedMaxConcurrentTasks == {<<>>, <<2>>, <<-1>>}

\* the data reported for the worker at an address
ReportedAgent(ip, status, current_tasks, max_concurrent_tasks) ==
    LET base == [check_agent(ip, AGENT_PORT, "agent",
                             HealthResponse("ok", WorkerInfo(ip), 0))
                     EXCEPT !.status = status]
        with_current == IF current_tasks = <<>> THEN base
                        ELSE base @@ [current_tasks |-> current_tasks[1]]
    IN IF max_concurrent_tasks = <<>> THEN with_current
       ELSE with_current @@ [max_concurrent_tasks |-> max_concurrent_tasks[1]]

ReportedAgents(ip) ==
    {ReportedAgent(ip, s, c, m) :
        s \in {"healthy", "unreachable"}, c \in ReportedCurrentTasks,
        m \in ReportedMaxConcurrentTasks}

\* the lists of agents an answer to GET /agents may hold
Reports ==
    {<<>>} \cup {<<a>> : a \in ReportedAgents("10.0.0.1")}
        \cup {<<a, b>> : a \in ReportedAgents("10.0.0.1"), b \in ReportedAgents("10.0.0.2")}

\* discover_agents_once, answered with status 200 and this list of agents
DiscoverReportedAgents(report) ==
    LET found == discover_agents_once(agent_pool, last_discovery,
                                      [kind |-> "ok", agents |-> report])
    IN /\ agent_pool' = found.agent_pool
       /\ last_discovery' = found.last_discovery
       /\ UNCHANGED <<agents, selected>>
       /\ CoordSequential

\* select_agent on the pool, without a rediscovery
SelectFromPool(task_type) ==
    LET sel == coordinator_select_agent(agent_pool, now, task_type, get_agents("ok", <<>>))
    IN /\ agent_pool # <<>>
       /\ selected' = sel.ret
       /\ UNCHANGED <<agents, agent_pool, last_discovery>>
       /\ CoordSequential

NextPool ==
    \/ \E report \in Reports : DiscoverReportedAgents(report)
    \/ \E t \in TaskTypes : SelectFromPool(t)

SpecPool == Init /\ [][NextPool]_vars

C22_DispatchFailureIsRetried ==
    \A task \in CoordTasks, answer \in ResponseKinds, reachable \in BOOLEAN,
       kind \in ResponseKinds :
        LET run == coordinator_execute_task(agent_pool, last_discovery, task,
                       get_agents(answer, agents), agents, reachable, kind)
        IN (run.lb_requests # <<>> /\ (~reachable \/ kind # "ok")) =>
               /\ run.task.retry_count = task.retry_count + 1
               /\ run.task.retry_count <= run.task.max_retries =>
                      run.task.status \in {"pending", "retry"}

\* C23: POST /execute of the load balancer answers 404 when an explicit agent_id
\* is not in the registry and 503 when no agent is available for the task, and in
\* neither case sends a request to a worker.
C23_NoAgentStatusCodes ==
    \A request \in Requests, kind \in ResponseKinds :
        \A chosen \in select_agent(agents, request.task.type, request.agent_id) :
            chosen = NoAgent =>
                LET answer == post_execute(agents, request, chosen, kind)
                IN /\ answer.requests = <<>>
                   /\ answer.status_code =
                          IF request.agent_id # NoAgent /\ ~DictHas(agents, request.agent_id)
                          THEN 404 ELSE 503

(***************************************************************************)
(* execute_swarm of the coordinator, one step per await.  Each replica's   *)
(* execute_task runs up to its POST to the load balancer in one step (its  *)
(* start) and from the answer to its return in another.  The clock counts  *)
(* seconds: calls that follow each other without a sleep read the same     *)
(* time.                                                                   *)
(***************************************************************************)
\* replica counts of the swarm requests
MaxReplicas == 3

ExecutionStrategy == {"parallel", "sequential", "round_robin", "auto"}

\* random.randint(1000, 9999), as far as the requests of one run need it
SwarmNonces == {1000}

SwarmRequests ==
    {[task |-> PydanticTask("t1", t, MAX_RETRIES, EmptyDict), replicas |-> n,
      strategy |-> st] :
        t \in TaskTypes, n \in 1 .. MaxReplicas, st \in ExecutionStrategy}

\* f"{request.task.id}_replica_{i}": one string for each pair of id and index
replica_task_id(task_id, i) == [task_id |-> task_id, replica |-> i]

\* the task_id "unknown" of the entry built for an exception: no replica's id
UnknownTaskId == [task_id |-> "unknown", replica |-> -1]

\* the Task built for replica i
replica_task(request, i, swarm_id) ==
    PydanticTask(replica_task_id(request.task.id, i), request.task.type,
                 request.task.max_retries,
                 [replica_id |-> i, swarm_id |-> swarm_id,
                  total_replicas |-> request.replicas, strategy |-> request.strategy])

\* the outcome of a replica whose execute_task has not been called
Waiting == [state |-> "waiting", agent_id |-> NoAgent, result |-> NoExecutionResult]

\* mutant: every replica may start as soon as the one before it has started
may_start_without_waiting(sw, k) ==
    /\ sw.pc = "dispatch"
    /\ sw.strategy # "auto"
    /\ k = Len(sw.started) + 1
    /\ k <= sw.replicas

\* replica k (from 1) is the next whose execute_task is called: gather starts the
\* coroutines in list order; the sequential loop calls the next one after the
\* await of the one before has returned; no branch handles the strategy auto
may_start(sw, k) ==
    /\ sw.pc = "dispatch"
    /\ sw.strategy \in {"parallel", "sequential", "round_robin"}
    /\ k = Len(sw.started) + 1
    /\ k <= sw.replicas
    /\ sw.strategy = "sequential" =>
           \A j \in 1 .. k - 1 : sw.outcomes[j].state = "returned"

\* the loop over results: an exception becomes an ExecutionResult built with
\* execution_time=0, an ExecutionResult is kept and counted
process_results(sw, results) ==
    LET valid_results ==
            [i \in 1 .. Len(results) |->
                IF results[i].state = "raised"
                THEN ExecutionResult(UnknownTaskId, FALSE, "exception", 0, NoAgent)
                ELSE results[i].result]
        raised == \E i \in 1 .. Len(results) : valid_results[i] = ValidationError
        successful_count ==
            Cardinality({i \in 1 .. Len(results) :
                            results[i].state # "raised" /\ valid_results[i].success})
    IN [raised |-> raised,
        response |-> IF raised THEN NoSwarm.response
                     ELSE [success |-> successful_count > 0,
                           results |-> valid_results,
                           total_replicas |-> sw.replicas,
                           successful_replicas |-> successful_count,
                           failed_replicas |-> Len(results) - successful_count]]

\* the results the strategy has gathered when the dispatching is over
gathered(sw) ==
    IF sw.strategy = "auto" THEN <<>> ELSE sw.outcomes

SwarmSequential == UNCHANGED <<now, store_vars, pc, frame, selected, lb_pc, lb_frame, loops,
      active_tasks, executing>>

\* execute_swarm up to the strategy branch: the swarm id and the replica tasks
ExecuteSwarm(request, nonce) ==
    /\ swarm.pc = "idle"
    /\ swarm' = [NoSwarm EXCEPT
                    !.pc = "dispatch", !.strategy = request.strategy,
                    !.replicas = request.replicas, !.swarm_id = <<now, nonce>>,
                    !.tasks = [k \in 1 .. request.replicas |->
                                  replica_task(request, k - 1, <<now, nonce>>)],
                    !.outcomes = [k \in 1 .. request.replicas |-> Waiting]]
    /\ UNCHANGED <<agents, agent_pool, last_discovery>>
    /\ SwarmSequential

\* execute_task of replica k from its call to its POST, or to its return when
\* select_agent returns None, or to the exception select_agent raises; under the
\* sequential strategy the exception leaves execute_swarm
ReplicaStart(k, answer) ==
    LET sel == coordinator_select_agent(agent_pool, last_discovery, swarm.tasks[k].type,
                                        get_agents(answer, agents))
        outcome ==
            IF sel.raised
            THEN [Waiting EXCEPT !.state = "raised"]
            ELSE IF sel.ret = NoAgent
            THEN [state |-> "returned", agent_id |-> NoAgent,
                  result |-> ExecutionResult(swarm.tasks[k].id, FALSE,
                                             "Aucun agent disponible", PositiveElapsed,
                                             NoAgent)]
            ELSE [Waiting EXCEPT !.state = "in_flight", !.agent_id = sel.ret]
    IN /\ may_start(swarm, k)
       /\ swarm' = [swarm EXCEPT
                       !.started = Append(@, [replica |-> k - 1, start_time |-> now]),
                       !.outcomes[k] = outcome,
                       !.pc = IF sel.raised /\ swarm.strategy = "sequential"
                              THEN "raised" ELSE @]
       /\ agent_pool' = sel.agent_pool
       /\ last_discovery' = sel.last_discovery
       /\ UNCHANGED agents
       /\ SwarmSequential

\* execute_task of replica k from the answer to its POST to its return
ReplicaReturn(k, reachable, kind) ==
    /\ swarm.pc = "dispatch"
    /\ k \in 1 .. swarm.replicas
    /\ swarm.outcomes[k].state = "in_flight"
    /\ LET sent == coordinator_dispatch(swarm.tasks[k], swarm.outcomes[k].agent_id, agents,
                                        reachable, kind)
       IN /\ agents' = sent.agents
          /\ swarm' = [swarm EXCEPT !.outcomes[k].state = "returned",
                                    !.outcomes[k].result = sent.result,
                                    !.tasks[k] = sent.task]
    /\ UNCHANGED <<agent_pool, last_discovery>>
    /\ SwarmSequential

\* the dispatching is over: the results are processed and the response is built
SwarmCollect ==
    LET done == process_results(swarm, gathered(swarm)) IN
    /\ swarm.pc = "dispatch"
    /\ swarm.strategy # "auto" =>
           /\ Len(swarm.started) = swarm.replicas
           /\ \A k \in 1 .. swarm.replicas :
                  swarm.outcomes[k].state \in {"returned", "raised"}
    /\ swarm' = [swarm EXCEPT !.pc = IF done.raised THEN "raised" ELSE "done",
                              !.response = done.response]
    /\ UNCHANGED <<agents, agent_pool, last_discovery>>
    /\ SwarmSequential

\* the caller has the response, or the exception
SwarmReturn ==
    /\ swarm.pc \in {"done", "raised"}
    /\ swarm' = NoSwarm
    /\ UNCHANGED <<agents, agent_pool, last_discovery>>
    /\ SwarmSequential

\* the registries one discovery cycle of the load balancer produces
SwarmRegistries == {discover_agents(<<>>, world) : world \in Worlds}

InitSwarm ==
    /\ InitQueue
    /\ InitCallers
    /\ agents \in SwarmRegistries

NextSwarm ==
    \/ LbTick
    \/ \E request \in SwarmRequests, nonce \in SwarmNonces : ExecuteSwarm(request, nonce)
    \/ \E k \in 1 .. MaxReplicas, answer \in ResponseKinds : ReplicaStart(k, answer)
    \/ \E k \in 1 .. MaxReplicas, reachable \in BOOLEAN, kind \in ResponseKinds :
          ReplicaReturn(k, reachable, kind)
    \/ SwarmCollect
    \/ SwarmReturn

SpecSwarm == InitSwarm /\ [][NextSwarm]_vars

SwarmTypeOK ==
    /\ swarm.pc \in {"idle", "dispatch", "done", "raised"}
    /\ swarm.strategy \in ExecutionStrategy
    /\ Len(swarm.tasks) = swarm.replicas
    /\ Len(swarm.outcomes) = swarm.replicas
    /\ Len(swarm.started) <= swarm.replicas

(***************************************************************************)
(* Properties of execute_swarm                                             *)
(***************************************************************************)
\* execute_swarm has ended, with a response or with an exception
SwarmEnded == swarm.pc \in {"done", "raised"}

NamedStrategies == {"parallel", "sequential", "round_robin"}

\* the replicas, counted from 1, whose execute_task has been called
Dispatched == {swarm.started[j].replica + 1 : j \in 1 .. Len(swarm.started)}

\* C24: execute_swarm with replica count N builds exactly N tasks with pairwise
\* distinct ids, one swarm id and the replica indexes 0..N-1, and when it has
\* ended each of them has been dispatched exactly once.
C24_EveryReplicaBuiltAndDispatchedOnce ==
    swarm.pc # "idle" =>
        /\ Len(swarm.tasks) = swarm.replicas
        /\ \A i, j \in 1 .. Len(swarm.tasks) :
               swarm.tasks[i].id = swarm.tasks[j].id => i = j
        /\ \A i \in 1 .. Len(swarm.tasks) :
               /\ swarm.tasks[i].metadata.swarm_id = swarm.swarm_id
               /\ swarm.tasks[i].metadata.replica_id = i - 1
        /\ SwarmEnded =>
               \A k \in 1 .. swarm.replicas :
                   Cardinality({j \in 1 .. Len(swarm.started) :
                                   swarm.started[j].replica = k - 1}) = 1

\* C25: under the parallel, sequential and round-robin strategies an exception
\* raised by one replica's dispatch does not keep the other replicas from being
\* dispatched and reported: execute_swarm ends with a response that has one entry
\* for each replica, a failed entry for the replica that raised, and success true
\* exactly when at least one replica succeeded.
C25_ReplicaExceptionIsOneFailedEntry ==
    (SwarmEnded /\ swarm.strategy \in NamedStrategies) =>
        /\ swarm.pc = "done"
        /\ Dispatched = 1 .. swarm.replicas
        /\ Len(swarm.response.results) = swarm.replicas
        /\ \A k \in 1 .. swarm.replicas :
               swarm.outcomes[k].state = "raised" => ~swarm.response.results[k].success
        /\ swarm.response.success <=>
               \E k \in 1 .. swarm.replicas :
                   /\ swarm.outcomes[k].state = "returned"
                   /\ swarm.outcomes[k].result.success

\* C26: under the sequential strategy at most one replica dispatch is in flight,
\* a replica's dispatch starts only after the dispatch of the replica before it
\* has returned, and the results are listed in replica order.
C26_SequentialOneAtATime ==
    swarm.strategy = "sequential" =>
        /\ Cardinality({k \in 1 .. swarm.replicas :
                           swarm.outcomes[k].state = "in_flight"}) <= 1
        /\ \A j \in 1 .. Len(swarm.started) :
               /\ swarm.started[j].replica = j - 1
               /\ \A i \in 1 .. j - 1 : swarm.outcomes[i].state = "returned"
        /\ swarm.pc = "done" =>
               /\ Len(swarm.response.results) = swarm.replicas
               /\ \A i \in 1 .. swarm.replicas :
                      swarm.response.results[i].task_id = swarm.tasks[i].id

\* a sequential swarm of more than one replica has ended with a response in which
\* one replica succeeded and another failed, at a later time than it began
C26_Witness ==
    /\ swarm.strategy = "sequential"
    /\ swarm.pc = "done"
    /\ swarm.replicas > 1
    /\ \E i, j \in 1 .. swarm.replicas :
           /\ swarm.response.results[i].success
           /\ ~swarm.response.results[j].success
    /\ \E j \in 1 .. Len(swarm.started) : swarm.started[j].start_time > swarm.swarm_id[1]

\* C27: under the round-robin strategy a pacing delay lies between the starts of
\* successive replica dispatches: each dispatch starts later than the one before.
C27_RoundRobinIsPaced ==
    swarm.strategy = "round_robin" =>
        \A j \in 2 .. Len(swarm.started) :
            swarm.started[j].start_time > swarm.started[j - 1].start_time


(***************************************************************************)
(* SpecLoops: the two background tasks of the load balancer, from          *)
(* initialize to shutdown, one step per await.  The registry, the copy     *)
(* discover_agents keeps of it and the list health_check_agents iterates   *)
(* over hold references to Agent objects: an assignment to a field of an   *)
(* object is seen through every reference to it.                           *)
(***************************************************************************)
\* cycles one background task starts in one run
MaxLoopCycles == 2

\* the addresses a service name resolves to while the background tasks run: one
\* worker is deployed
LoopIps == {<<>>, <<"10.0.0.1">>}

\* what the network answers to the discovery of initialize
LoopWorlds == {world \in Worlds : world.ips[1] \in LoopIps /\ world.ips[2] = <<>>}

\* the objects the references of a sequence point to
Deref(heap, refs) == [x \in 1 .. Len(refs) |-> heap[refs[x]]]

\* the reference of a newly constructed object
NewRef(heap) ==
    CHOOSE o \in 1 .. Cardinality(DOMAIN heap) + 1 :
        o \notin DOMAIN heap /\ \A p \in 1 .. o - 1 : p \in DOMAIN heap

\* agent_id in self.agents
RefHas(heap, registry, agent_id) == DictHas(Deref(heap, registry), agent_id)

\* self.agents[agent_id] = the object o: an existing key keeps its place
RefSet(heap, registry, agent_id, o) ==
    IF RefHas(heap, registry, agent_id)
    THEN [x \in 1 .. Len(registry) |->
             IF heap[registry[x]].id = agent_id THEN o ELSE registry[x]]
    ELSE Append(registry, o)

\* del self.agents[agent_id]
RefDel(heap, registry, agent_id) == SelectSeq(registry, LAMBDA o : heap[o].id # agent_id)

\* the objects nothing refers to any more are dropped, and the references are
\* numbered in the order registry, previous_agents, snapshot: which number names an
\* object has no meaning
Collected(L) ==
    LET refs == L.registry \o L.previous_agents \o L.snapshot
        live == {refs[x] : x \in 1 .. Len(refs)}
        first(o) == CHOOSE x \in 1 .. Len(refs) :
                        refs[x] = o /\ \A y \in 1 .. x - 1 : refs[y] # o
        rank(o) == Cardinality({p \in live : first(p) <= first(o)})
        renamed(rs) == [x \in 1 .. Len(rs) |-> rank(rs[x])]
    IN [L EXCEPT !.heap = [n \in 1 .. Cardinality(live) |->
                              L.heap[CHOOSE o \in live : rank(o) = n]],
                 !.registry = renamed(L.registry),
                 !.previous_agents = renamed(L.previous_agents),
                 !.snapshot = renamed(L.snapshot)]

\* the for loop over the results of gather for one service name: every Agent
\* that check_agent returns is a new object
RECURSIVE probe_refs(_, _, _, _, _)
probe_refs(L, ips, x, service_name, probe) ==
    IF x > Len(ips) THEN L
    ELSE LET result == check_agent(ips[x], AGENT_PORT, service_name, probe[ips[x]])
             o == NewRef(L.heap)
         IN probe_refs(
                IF result # NoAgentRecord
                THEN [L EXCEPT !.heap = (o :> result) @@ L.heap,
                               !.registry = RefSet(L.heap, L.registry, result.id, o)]
                ELSE L,
                ips, x + 1, service_name, probe)

\* what the reconnection attempt for the previously known object a leaves
reconnect_ref(L, a, response) ==
    LET agent == L.heap[a]
        parts == url_parts(agent.url)
        reconnected_agent == check_agent(parts[1], parts[2], "reconnect", response)
        o == NewRef(L.heap)
        missed == [agent EXCEPT !.failed_attempts = @ + 1]
    IN IF Len(parts) # 2 THEN L
       ELSE IF reconnected_agent # NoAgentRecord
       THEN [L EXCEPT !.heap = (o :> [reconnected_agent EXCEPT !.id = agent.id]) @@ L.heap,
                      !.registry = RefSet(L.heap, L.registry, agent.id, o)]
       ELSE IF missed.failed_attempts < missed.max_failed_attempts
       THEN [L EXCEPT !.heap[a] = [missed EXCEPT !.status = "unreachable"],
                      !.registry = RefSet(L.heap, L.registry, agent.id, a)]
       ELSE [L EXCEPT !.heap[a] = missed]

\* `while self.running:` at the head of a background loop
loop_head(is_running) == IF is_running THEN "sleep" ELSE "done"

\* mutant: an exception in an iteration ends the loop
after_exception_breaking(l) == "done"

\* `except Exception as e:` of a background loop: the error is logged and the
\* loop waits 5 seconds
after_exception(l) == "error_sleep"

\* the state of a loop whose cycle has returned
CycleReturned(L, l) == [L EXCEPT !.pc[l] = loop_head(L.running)]

\* the state of a loop whose cycle has raised an exception
CycleRaised(L, l) ==
    [L EXCEPT !.pc[l] = after_exception(l), !.errors[l] = @ + 1]

\* the next service name of discover_agents, or its loop over previous_agents
AfterServiceRef(L) ==
    IF L.service < Len(service_names)
    THEN [L EXCEPT !.pc["discovery"] = "resolve", !.service = @ + 1, !.ips = <<>>]
    ELSE [L EXCEPT !.pc["discovery"] = "reconnect", !.ips = <<>>, !.i = 1]

LoopsSequential ==
    UNCHANGED <<now, store_vars, pc, frame, agent_pool, last_discovery, selected, lb_pc,
                lb_frame, swarm,
                active_tasks, executing>>

\* a step of the load balancer that leaves L
LoopsStep(L) ==
    /\ loops' = Collected(L)
    /\ agents' = Deref(L.heap, L.registry)
    /\ LoopsSequential


\* initialize: the first discovery, then running = True and the two tasks, which
\* go to their first sleep
Initialize(world) ==
    LET found == discover_agents(<<>>, world) IN
    /\ ~loops.running
    /\ \A l \in BackgroundLoops : loops.pc[l] = "off"
    /\ LoopsStep([loops EXCEPT !.heap = [o \in 1 .. Len(found) |-> found[o]],
                               !.registry = [o \in 1 .. Len(found) |-> o],
                               !.running = TRUE,
                               !.pc = [l \in BackgroundLoops |-> "sleep"]])

\* the sleep of the discovery loop is over: `if self.running:` and discover_agents
\* up to its first await
DiscoveryWake ==
    /\ loops.pc["discovery"] = "sleep"
    /\ "discovery" \notin loops.cancel
    /\ loops.cycles["discovery"] < MaxLoopCycles
    /\ LoopsStep(IF loops.running
                 THEN [loops EXCEPT !.pc["discovery"] = "resolve",
                                    !.cycles["discovery"] = @ + 1,
                                    !.previous_agents = loops.registry,
                                    !.registry = <<>>,
                                    !.service = 1, !.ips = <<>>, !.i = 0]
                 ELSE CycleReturned(loops, "discovery"))

\* ips = await self.resolve_service_ips(service_name)
LoopResolve(ips) ==
    /\ loops.pc["discovery"] = "resolve"
    /\ "discovery" \notin loops.cancel
    /\ LoopsStep(IF ips = <<>> THEN AfterServiceRef(loops)
                 ELSE [loops EXCEPT !.pc["discovery"] = "probe", !.ips = ips])

\* results = await asyncio.gather(*tasks); the loop over the results
LoopProbe(probe) ==
    /\ loops.pc["discovery"] = "probe"
    /\ "discovery" \notin loops.cancel
    /\ LoopsStep(AfterServiceRef(probe_refs(loops, loops.ips, 1,
                                            service_names[loops.service], probe)))

\* the loop over previous_agents up to the next reconnection attempt; when it is
\* exhausted discover_agents returns and the loop goes back to its head
LoopReconnect ==
    LET previous == Deref(loops.heap, loops.previous_agents)
        j == next_missing(previous, Deref(loops.heap, loops.registry), loops.i)
    IN /\ loops.pc["discovery"] = "reconnect"
       /\ "discovery" \notin loops.cancel
       /\ LoopsStep(IF j <= Len(previous)
                    THEN [loops EXCEPT !.pc["discovery"] = "reconnecting", !.i = j]
                    ELSE [CycleReturned(loops, "discovery") EXCEPT
                              !.previous_agents = <<>>, !.service = 0, !.i = 0])

\* the answer to the reconnection attempt
LoopReconnected(kind) ==
    LET a == loops.previous_agents[loops.i]
        response == HealthResponse(kind, WorkerInfo(loops.heap[a].url.ip), 0)
    IN /\ loops.pc["discovery"] = "reconnecting"
       /\ "discovery" \notin loops.cancel
       /\ LoopsStep([reconnect_ref(loops, a, response) EXCEPT
                         !.pc["discovery"] = "reconnect", !.i = @ + 1])

\* the sleep of the health-check loop is over: `if self.running:` and
\* health_check_agents up to its first await
HealthCheckWake ==
    /\ loops.pc["health_check"] = "sleep"
    /\ "health_check" \notin loops.cancel
    /\ loops.cycles["health_check"] < MaxLoopCycles
    /\ LoopsStep(IF ~loops.running THEN CycleReturned(loops, "health_check")
                 ELSE IF loops.registry = <<>>
                 THEN [CycleReturned(loops, "health_check") EXCEPT
                           !.cycles["health_check"] = @ + 1]
                 ELSE [loops EXCEPT !.pc["health_check"] = "probe",
                                    !.cycles["health_check"] = @ + 1,
                                    !.snapshot = loops.registry, !.k = 1])

\* the answer to the probe of one agent of the list: the fields of the object,
\* and `del self.agents[agent_id]`, which raises KeyError when the registry has no
\* such key
HealthProbed(kind) ==
    LET a == loops.snapshot[loops.k]
        agent == loops.heap[a]
        response == HealthResponse(kind, WorkerInfo(agent.url.ip),
                                   IF kind = "ok" THEN CHOOSE load \in HealthLoads : TRUE
                                   ELSE 0)
        probed == health_probe(agent, response)
        L == [loops EXCEPT !.heap[a] = probed]
        returned == [L EXCEPT !.snapshot = <<>>, !.k = 0]
    IN /\ loops.pc["health_check"] = "probe"
       /\ "health_check" \notin loops.cancel
       /\ LoopsStep(
              IF removed_by_health_check(probed, response)
                     /\ ~RefHas(L.heap, L.registry, agent.id)
              THEN CycleRaised(returned, "health_check")
              ELSE LET M == IF removed_by_health_check(probed, response)
                            THEN [L EXCEPT !.registry = RefDel(L.heap, L.registry, agent.id)]
                            ELSE L
                   IN IF loops.k < Len(loops.snapshot)
                      THEN [M EXCEPT !.k = @ + 1]
                      ELSE CycleReturned([M EXCEPT !.snapshot = <<>>, !.k = 0],
                                         "health_check"))

\* `await asyncio.sleep(5)` of the except branch is over: back to the loop head
ErrorSleepOver(l) ==
    /\ loops.pc[l] = "error_sleep"
    /\ l \notin loops.cancel
    /\ LoopsStep([loops EXCEPT !.pc[l] = loop_head(loops.running)])

\* shutdown: running = False, and cancel() on the two tasks
Shutdown ==
    /\ \A l \in BackgroundLoops : loops.pc[l] # "off"
    /\ loops.running
    /\ LoopsStep([loops EXCEPT !.running = FALSE,
                               !.cancel = {l \in BackgroundLoops : loops.pc[l] # "done"}])

\* the CancelledError reaches the task at the await it is suspended in: no handler
\* on the way catches it but `except asyncio.CancelledError: break`, and from the
\* sleep of the except branch it leaves the coroutine
CancelDelivered(l) ==
    /\ l \in loops.cancel
    /\ LoopsStep(IF l = "discovery"
                 THEN [loops EXCEPT !.pc[l] = "done", !.cancel = @ \ {l},
                                    !.previous_agents = <<>>, !.service = 0,
                                    !.ips = <<>>, !.i = 0]
                 ELSE [loops EXCEPT !.pc[l] = "done", !.cancel = @ \ {l},
                                    !.snapshot = <<>>, !.k = 0])

NextLoops ==
    \/ LbTick
    \/ \E world \in LoopWorlds : Initialize(world)
    \/ DiscoveryWake
    \/ \E ips \in LoopIps : LoopResolve(ips)
    \/ \E probe \in ProbeRounds : LoopProbe(probe)
    \/ LoopReconnect
    \/ \E kind \in {"ok", "transport_error"} : LoopReconnected(kind)
    \/ HealthCheckWake
    \/ \E kind \in ResponseKinds : HealthProbed(kind)
    \/ \E l \in BackgroundLoops : ErrorSleepOver(l)
    \/ Shutdown
    \/ \E l \in BackgroundLoops : CancelDelivered(l)

SpecLoops == Init /\ [][NextLoops]_vars

\* the registry the other operations read is the one the references denote
LoopsTypeOK ==
    /\ agents = Deref(loops.heap, loops.registry)
    /\ \A x, y \in 1 .. Len(agents) : agents[x].id = agents[y].id => x = y
    /\ loops.cancel # {} => ~loops.running
    /\ \A l \in BackgroundLoops : loops.cycles[l] <= MaxLoopCycles


\* the event loop resumes a task whose sleep is over
SpecLoopsFair ==
    Init /\ [][NextLoops]_vars /\ \A l \in BackgroundLoops : WF_vars(ErrorSleepOver(l))

\* the positions of a background task inside a cycle
InCycle == {"resolve", "probe", "reconnect", "reconnecting"}

\* C28: while the load balancer is running and its loops are not cancelled, an
\* exception raised inside one iteration of a background loop does not terminate
\* the loop: the loop waits and then goes back to its head, where the next
\* iteration begins, and a loop ends only once shutdown has cleared the running
\* flag and cancelled it; after shutdown no discovery or health-check cycle starts.
C28_LoopsSurviveExceptionsUntilShutdown ==
    /\ [][\A l \in BackgroundLoops :
             /\ loops'.errors[l] > loops.errors[l] =>
                    loops.running /\ loops'.pc[l] = "error_sleep"
             /\ (loops.pc[l] = "error_sleep" /\ loops'.pc[l] # "error_sleep"
                     /\ loops.running) => loops'.pc[l] = "sleep"
             /\ (loops.pc[l] # "done" /\ loops'.pc[l] = "done") => ~loops.running
             /\ ~loops.running =>
                    /\ loops'.cycles[l] = loops.cycles[l]
                    /\ loops'.pc[l] \in InCycle => loops.pc[l] \in InCycle]_vars
    /\ \A l \in BackgroundLoops :
           (loops.pc[l] = "error_sleep") ~> (loops.pc[l] = "sleep" \/ ~loops.running)

\* C28 witness: the health-check loop has caught an exception of one cycle and is
\* inside a later cycle
C28_Witness ==
    /\ loops.running
    /\ loops.errors["health_check"] > 0
    /\ loops.pc["health_check"] = "probe"


(***************************************************************************)
(* SpecSweeps: tasks whose worker never reports.  Tasks are submitted,     *)
(* claimed and started; after that only time and monitor_timeouts act.     *)
(***************************************************************************)
SweepTemplates ==
    {[priority |-> NORMAL, max_retries |-> r, timeout |-> TASK_TIMEOUT, required |-> {}] :
        r \in {0, 1}}

NextSweeps ==
    \/ Tick(TASK_TIMEOUT)
    \/ \E id \in TaskIds, tpl \in SweepTemplates :
          /\ metrics.tasks_submitted < MaxSubmits
          /\ SubmitTask(id, tpl.priority, tpl.max_retries, tpl.timeout, {}, tpl.required)
    \/ \E a \in AgentIds : GetNextTask(a, {})
    \/ \E t \in TaskIds, a \in AgentIds : StartTask(t, a)
    \/ MonitorTimeouts

\* the scheduler keeps calling monitor_timeouts, and time passes
SpecSweeps ==
    Init /\ [][NextSweeps]_vars /\ WF_vars(MonitorTimeouts) /\ WF_vars(Tick(TASK_TIMEOUT))

IsRunning(t) == HExists(task_data, t) /\ task_data[t].status = "running"

\* a running task whose start lies TASK_TIMEOUT or more in the past
ExecutionTimedOut(t) ==
    /\ IsRunning(t)
    /\ t \in DOMAIN running
    /\ running[t] + TASK_TIMEOUT <= now

\* the clock of the run has reached its bound
ClockStopped == now + TASK_TIMEOUT > Epoch + 60 * MaxMinutes

\* C31: a task that is Running and whose worker never reports leaves Running under
\* repeated sweeps of monitor_timeouts; it leaves Running by being failed with the
\* execution-timeout error and its retry_count incremented, to retry while retries
\* remain and to failed otherwise.
C31_RunningTaskTimesOut ==
    /\ [][\A t \in TaskIds :
             (IsRunning(t) /\ ~IsRunning(t)') =>
                 /\ ExecutionTimedOut(t)
                 /\ task_data'[t].status =
                        IF task_data[t].retry_count < task_data[t].max_retries
                        THEN "retry" ELSE "failed"
                 /\ task_data'[t].error = TIMEOUT_RUNNING
                 /\ task_data'[t].retry_count = task_data[t].retry_count + 1
                 /\ t \notin DOMAIN running']_vars
    /\ \A t \in TaskIds :
           IsRunning(t) ~> (~IsRunning(t) \/ (ClockStopped /\ ~ExecutionTimedOut(t)))

\* C31 witness: the sweep has failed a task for good with the execution-timeout
\* error, for want of retries
C31_Witness ==
    \E t \in TaskIds :
        /\ HExists(task_data, t)
        /\ task_data[t].status = "failed"
        /\ task_data[t].error = TIMEOUT_RUNNING


(***************************************************************************)
(* SpecTimeouts: tasks submitted with a timeout of their own               *)
(***************************************************************************)
TimeoutTemplates ==
    {[priority |-> NORMAL, max_retries |-> 1, timeout |-> d, required |-> {}] :
        d \in {TASK_TIMEOUT, 2 * TASK_TIMEOUT}}

NextTimeouts ==
    \/ Tick(TASK_TIMEOUT)
    \/ \E id \in TaskIds, tpl \in TimeoutTemplates :
          /\ metrics.tasks_submitted < MaxSubmits
          /\ SubmitTask(id, tpl.priority, tpl.max_retries, tpl.timeout, {}, tpl.required)
    \/ \E a \in AgentIds : GetNextTask(a, {})
    \/ \E t \in TaskIds, a \in AgentIds : StartTask(t, a)
    \/ \E t \in TaskIds, a \in AgentIds, r \in Results : CompleteTask(t, a, r)
    \/ MonitorTimeouts

SpecTimeouts == Init /\ [][NextTimeouts]_vars

\* the time at which a task was assigned or started, as its index holds it
BoundSince(t) ==
    IF task_data[t].status = "assigned" THEN assigned[t] ELSE running[t]

\* C32: monitor_timeouts decides per task with the task's own timeout: a sweep
\* force-fails an assigned or running task if and only if the time since it was
\* assigned or started exceeds the timeout of its record (a task whose time is
\* exactly its timeout may go either way).
C32_SweepUsesOwnTimeout ==
    \A t \in TaskIds :
        (/\ HExists(task_data, t)
         /\ \/ task_data[t].status = "assigned" /\ t \in DOMAIN assigned
            \/ task_data[t].status = "running" /\ t \in DOMAIN running) =>
            LET after == monitor_timeouts(Store).task_data[t]
                elapsed == now - BoundSince(t)
            IN /\ elapsed > task_data[t].timeout => after.status \in {"retry", "failed"}
               /\ after.status \in {"retry", "failed"} => elapsed >= task_data[t].timeout


(***************************************************************************)
(* SpecTransitions: complete_task called by the bound agent while another  *)
(* coroutine is inside monitor_timeouts or cancel_task.  A call is one     *)
(* step per awaited Redis command.  Caller a1 is the agent, caller a2 the  *)
(* other coroutine.                                                        *)
(***************************************************************************)
TransitionSequential == UNCHANGED <<now, lb_vars>>

\* a call begins: when the other caller is not inside a call, what its last call
\* returned is no longer of interest
BeginCall(a, label, f) ==
    /\ pc[a] = "idle"
    /\ SetPc(a, label)
    /\ frame' = [b \in AgentIds |->
                    IF b = a THEN f
                    ELSE IF pc[b] = "idle" THEN [frame[b] EXCEPT !.done = {}]
                    ELSE frame[b]]
    /\ UNCHANGED store_vars
    /\ TransitionSequential

\* the call, or the fail_task call inside monitor_timeouts, returns value
Returned(a, f, value) ==
    LET g == IF value THEN [f EXCEPT !.done = @ \cup {f.task.id}] ELSE f IN
    IF f.task_ids = <<>> THEN SetPc(a, "idle") /\ SetFrame(a, g)
    ELSE IF g.i + 1 > Len(g.task_ids) THEN SetPc(a, "idle") /\ SetFrame(a, g)
    ELSE SetPc(a, "mt_hget") /\ SetFrame(a, [g EXCEPT !.i = @ + 1])

\* complete_task(task_id, agent_id, result), one step per await
CompleteTaskStep(a) ==
    LET f == frame[a]
        t == f.task.id
    IN
    /\ pc[a] \in {"ct_hget", "ct_zrem", "ct_zadd", "ct_hset_result", "ct_srem", "ct_hset",
                  "ct_metrics"}
    /\ TransitionSequential
    /\ CASE pc[a] = "ct_hget" ->
              /\ UNCHANGED store_vars
              /\ IF ~HExists(task_data, t) THEN Returned(a, f, FALSE)
                 ELSE IF task_data[t].agent_id # f.agent_id
                            \/ task_data[t].status # "running"
                 THEN Returned(a, f, FALSE)
                 ELSE /\ SetPc(a, "ct_zrem")
                      /\ SetFrame(a, [f EXCEPT !.task = [task_data[t] EXCEPT
                                                           !.status = "completed",
                                                           !.result = "ok"],
                                               !.completed_at = now])
         [] pc[a] = "ct_zrem" ->
              /\ Commit([Store EXCEPT !.running = ZRem(@, t)])
              /\ SetPc(a, "ct_zadd") /\ UNCHANGED frame
         [] pc[a] = "ct_zadd" ->
              /\ Commit([Store EXCEPT !.completed = ZAdd(@, t, f.completed_at)])
              /\ SetPc(a, "ct_hset_result") /\ UNCHANGED frame
         [] pc[a] = "ct_hset_result" ->
              /\ Commit([Store EXCEPT !.task_results = @ \cup {t}])
              /\ SetPc(a, "ct_srem") /\ UNCHANGED frame
         [] pc[a] = "ct_srem" ->
              /\ Commit([Store EXCEPT !.agent_tasks = SRem(@, f.agent_id, t)])
              /\ SetPc(a, "ct_hset") /\ UNCHANGED frame
         [] pc[a] = "ct_hset" ->
              /\ Commit([Store EXCEPT !.task_data = HSet(@, t, f.task)])
              /\ SetPc(a, "ct_metrics") /\ UNCHANGED frame
         [] pc[a] = "ct_metrics" ->
              /\ Commit(_update_metrics(Store, "tasks_completed", 1))
              /\ Returned(a, f, TRUE)

\* fail_task(task_id, agent_id, "Timeout d'execution", retry=True), one step per await
FailTaskStep(a) ==
    LET f == frame[a]
        t == f.task.id
    IN
    /\ pc[a] \in {"ft_hget", "ft_srem", "ft_zadd_pending", "ft_zadd_failed", "ft_metrics",
                  "ft_zrem_assigned", "ft_zrem_running", "ft_hset"}
    /\ TransitionSequential
    /\ CASE pc[a] = "ft_hget" ->
              /\ UNCHANGED store_vars
              /\ IF ~HExists(task_data, t) THEN Returned(a, f, FALSE)
                 ELSE IF task_data[t].agent_id # f.agent_id THEN Returned(a, f, FALSE)
                 ELSE /\ SetPc(a, "ft_srem")
                      /\ SetFrame(a, [f EXCEPT !.task = [task_data[t] EXCEPT
                                                           !.error = TIMEOUT_RUNNING,
                                                           !.retry_count = @ + 1]])
         [] pc[a] = "ft_srem" ->
              /\ Commit([Store EXCEPT !.agent_tasks = SRem(@, f.agent_id, t)])
              /\ IF should_retry(f.task, TRUE)
                 THEN /\ SetPc(a, "ft_zadd_pending")
                      /\ SetFrame(a, [f EXCEPT !.task = [@ EXCEPT !.status = "retry",
                                                                  !.agent_id = NoAgent],
                                               !.completed_at = retry_time(f.task)])
                 ELSE /\ SetPc(a, "ft_zadd_failed")
                      /\ SetFrame(a, [f EXCEPT !.task = [@ EXCEPT !.status = "failed"],
                                               !.completed_at = now])
         [] pc[a] = "ft_zadd_pending" ->
              /\ Commit([Store EXCEPT !.pending = ZAdd(@, t, f.completed_at)])
              /\ SetPc(a, "ft_zrem_assigned") /\ UNCHANGED frame
         [] pc[a] = "ft_zadd_failed" ->
              /\ Commit([Store EXCEPT !.failed = ZAdd(@, t, f.completed_at)])
              /\ SetPc(a, "ft_metrics") /\ UNCHANGED frame
         [] pc[a] = "ft_metrics" ->
              /\ Commit(_update_metrics(Store, "tasks_failed", 1))
              /\ SetPc(a, "ft_zrem_assigned") /\ UNCHANGED frame
         [] pc[a] = "ft_zrem_assigned" ->
              /\ Commit([Store EXCEPT !.assigned = ZRem(@, t)])
              /\ SetPc(a, "ft_zrem_running") /\ UNCHANGED frame
         [] pc[a] = "ft_zrem_running" ->
              /\ Commit([Store EXCEPT !.running = ZRem(@, t)])
              /\ SetPc(a, "ft_hset") /\ UNCHANGED frame
         [] pc[a] = "ft_hset" ->
              /\ Commit([Store EXCEPT !.task_data = HSet(@, t, f.task)])
              /\ Returned(a, f, TRUE)


\* monitor_timeouts up to the call of fail_task for a running task, one step per
\* await.  The fail_task calls for assigned tasks read the record and return False
\* (the agent of a record is never "system"); they are one step.
MonitorTimeoutsStep(a) ==
    LET f == frame[a] IN
    /\ pc[a] \in {"mt_assigned", "mt_running", "mt_hget"}
    /\ UNCHANGED store_vars
    /\ TransitionSequential
    /\ CASE pc[a] = "mt_assigned" ->
              /\ sweep_assigned(Store, ZRangeByScore(assigned, 0, timeout_cutoff), 1) = Store
              /\ SetPc(a, "mt_running") /\ UNCHANGED frame
         [] pc[a] = "mt_running" ->
              LET task_ids == ZRangeByScore(running, 0, timeout_cutoff) IN
              IF task_ids = <<>> THEN SetPc(a, "idle") /\ UNCHANGED frame
              ELSE SetPc(a, "mt_hget") /\ SetFrame(a, [f EXCEPT !.task_ids = task_ids, !.i = 1])
         [] pc[a] = "mt_hget" ->
              LET task_id == f.task_ids[f.i] IN
              IF HExists(task_data, task_id)
              THEN /\ SetPc(a, "ft_hget")
                   /\ SetFrame(a, [f EXCEPT !.task = task_data[task_id],
                                            !.agent_id = running_timeout_agent(Store, task_id)])
              ELSE Returned(a, [f EXCEPT !.task.id = task_id], FALSE)

\* cancel_task(task_id), one step per await
CancelTaskStep(a) ==
    LET f == frame[a]
        t == f.task.id
    IN
    /\ pc[a] \in {"cn_hget", "cn_zrem_pending", "cn_zrem_assigned", "cn_zrem_running",
                  "cn_srem", "cn_hset"}
    /\ TransitionSequential
    /\ CASE pc[a] = "cn_hget" ->
              /\ UNCHANGED store_vars
              /\ IF ~HExists(task_data, t) THEN Returned(a, f, FALSE)
                 ELSE IF Terminal(task_data[t].status) THEN Returned(a, f, FALSE)
                 ELSE /\ SetPc(a, "cn_zrem_pending")
                      /\ SetFrame(a, [f EXCEPT !.task = [task_data[t] EXCEPT
                                                           !.status = "cancelled"]])
         [] pc[a] = "cn_zrem_pending" ->
              /\ Commit([Store EXCEPT !.pending = ZRem(@, t)])
              /\ SetPc(a, "cn_zrem_assigned") /\ UNCHANGED frame
         [] pc[a] = "cn_zrem_assigned" ->
              /\ Commit([Store EXCEPT !.assigned = ZRem(@, t)])
              /\ SetPc(a, "cn_zrem_running") /\ UNCHANGED frame
         [] pc[a] = "cn_zrem_running" ->
              /\ Commit([Store EXCEPT !.running = ZRem(@, t)])
              /\ IF f.task.agent_id # NoAgent
                 THEN SetPc(a, "cn_srem") /\ UNCHANGED frame
                 ELSE SetPc(a, "cn_hset") /\ UNCHANGED frame
         [] pc[a] = "cn_srem" ->
              /\ Commit([Store EXCEPT !.agent_tasks = SRem(@, f.task.agent_id, t)])
              /\ SetPc(a, "cn_hset") /\ UNCHANGED frame
         [] pc[a] = "cn_hset" ->
              /\ Commit([Store EXCEPT !.task_data = HSet(@, t, f.task)])
              /\ Returned(a, f, TRUE)

\* the frame of a call on task t with agent_id
CallFrame(t, agent_id) ==
    [NullFrame EXCEPT !.task.id = t, !.agent_id = agent_id]

\* a whole call made while no caller is inside a call
Quiet(call) ==
    /\ \A a \in AgentIds : pc[a] = "idle"
    /\ call

TransitionTemplates ==
    {[priority |-> NORMAL, max_retries |-> r, timeout |-> TASK_TIMEOUT, required |-> {}] :
        r \in {0, 1}}

NextTransitions ==
    \/ Quiet(Tick(TASK_TIMEOUT))
    \/ \E id \in TaskIds, tpl \in TransitionTemplates :
          Quiet(SubmitInSequence(id, tpl, {}))
    \/ \E a \in AgentIds : Quiet(GetNextTask(a, {}))
    \/ \E t \in TaskIds, a \in AgentIds : Quiet(StartTask(t, a))
    \/ \E t \in TaskIds : BeginCall("a1", "ct_hget", CallFrame(t, "a1"))
    \/ BeginCall("a2", "mt_assigned", NullFrame)
    \/ \E t \in TaskIds : BeginCall("a2", "cn_hget", CallFrame(t, NoAgent))
    \/ \E a \in AgentIds : CompleteTaskStep(a)
    \/ \E a \in AgentIds : FailTaskStep(a)
    \/ \E a \in AgentIds : MonitorTimeoutsStep(a)
    \/ \E a \in AgentIds : CancelTaskStep(a)

SpecTransitions == Init /\ [][NextTransitions]_vars

\* C33: when complete_task by the bound agent runs concurrently with fail_task
\* from the timeout sweep or with cancel_task on the same running task, at most
\* one of the calls takes effect, and once both have returned the task is not both
\* recorded as completed and rescheduled, failed or cancelled.
C33_TransitionsAtomicPerTask ==
    (\A a \in AgentIds : pc[a] = "idle") =>
        /\ frame["a1"].done \cap frame["a2"].done = {}
        /\ \A t \in DOMAIN task_data :
               (t \in DOMAIN completed \/ t \in task_results) =>
                   /\ task_data[t].status = "completed"
                   /\ t \notin DOMAIN pending
                   /\ t \notin DOMAIN failed


\* C34: when a health-check cycle overlaps a discovery cycle, every probe result is
\* applied to the record the registry currently holds for that agent id, the cycle
\* processes every agent it started with, and removing an agent that the discovery
\* has already dropped does not abort it: no health-check cycle ends in an
\* exception, and an agent still to be probed whose id the registry holds is the
\* very object the registry holds.
C34_HealthCheckAndDiscoveryDoNotRace ==
    /\ loops.errors["health_check"] = 0
    /\ loops.pc["health_check"] = "probe" =>
           \A x \in loops.k .. Len(loops.snapshot) :
               LET a == loops.snapshot[x] IN
               RefHas(loops.heap, loops.registry, loops.heap[a].id) =>
                   \E y \in 1 .. Len(loops.registry) : loops.registry[y] = a


\* C35: in every stored task record agent_id is set only while the status is
\* assigned or running: pending, retry, completed, failed and cancelled tasks have
\* no bound agent.
C35_AgentBoundOnlyWhileActive ==
    \A t \in DOMAIN task_data :
        task_data[t].agent_id # NoAgent => task_data[t].status \in {"assigned", "running"}


\* the status indexes and the statuses whose tasks each one holds
StatusIndexes ==
    [pending |-> {"pending", "retry"}, assigned |-> {"assigned"}, running |-> {"running"},
     completed |-> {"completed"}, failed |-> {"failed"}]

\* C36: after any sequence of TaskQueue operations every task id is in at most one
\* of the pending, assigned, running, completed and failed indexes, and the index
\* it is in matches its stored status.
C36_IndexesPartitionByStatus ==
    \A t \in TaskIds :
        /\ Cardinality({x \in DOMAIN StatusIndexes : t \in DOMAIN Store[x]}) <= 1
        /\ \A x \in DOMAIN StatusIndexes :
               t \in DOMAIN Store[x] =>
                   HExists(task_data, t) /\ task_data[t].status \in StatusIndexes[x]


\* C37: an agent that stays reachable and healthy is selectable at every moment:
\* while a discovery cycle is in progress and has not yet had an answer from any
\* worker, a select_agent call still finds every agent that was healthy in the
\* registry when the cycle began, by its id and as a capable agent for a task.
C37_HealthyAgentSelectableDuringDiscovery ==
    (loops.pc["discovery"] \in {"resolve", "probe"} /\ loops.service = 1) =>
        \A x \in 1 .. Len(loops.previous_agents) :
            LET agent == loops.heap[loops.previous_agents[x]] IN
            agent.status = "healthy" =>
                \A task_type \in TaskTypes :
                    /\ select_agent(agents, task_type, agent.id) = {agent.id}
                    /\ capable(agent, task_type) =>
                           NoAgent \notin select_agent(agents, task_type, NoAgent)


(***************************************************************************)
(* SpecInFlight: a parallel swarm of one replica more than an agent's      *)
(* default max_concurrent_tasks                                            *)
(***************************************************************************)
InFlightRequests ==
    {[task |-> PydanticTask("t1", t, MAX_RETRIES, EmptyDict),
      replicas |-> MAX_CONCURRENT_TASKS + 1, strategy |-> "parallel"] : t \in TaskTypes}

NextInFlight ==
    \/ \E request \in InFlightRequests, nonce \in SwarmNonces : ExecuteSwarm(request, nonce)
    \/ \E k \in 1 .. MAX_CONCURRENT_TASKS + 1 : ReplicaStart(k, "ok")
    \/ \E k \in 1 .. MAX_CONCURRENT_TASKS + 1, kind \in {"ok", "transport_error"} :
          ReplicaReturn(k, TRUE, kind)
    \/ SwarmCollect
    \/ SwarmReturn

SpecInFlight == InitSwarm /\ [][NextInFlight]_vars

\* the entries of active_tasks bound to an agent: the replicas between
\* `self.active_tasks[task.id] = task` and the finally clause of execute_task
in_flight(sw, agent_id) ==
    {k \in 1 .. sw.replicas :
        sw.outcomes[k].state = "in_flight" /\ sw.outcomes[k].agent_id = agent_id}

\* C38: at any time the number of tasks the coordinator has in flight on one agent
\* is at most that agent's max_concurrent_tasks, also when a parallel swarm
\* dispatches many replicas at once.
C38_InFlightWithinMaxConcurrent ==
    \A x \in 1 .. Len(agent_pool) :
        Cardinality(in_flight(swarm, agent_pool[x].id)) <= agent_pool[x].max_concurrent_tasks


\* C39: for every accepted swarm request (any replica count, any value of
\* ExecutionStrategy) the response of execute_swarm has successful_replicas +
\* failed_replicas = total_replicas = the number of entries of results.
C39_ResponseCountsAddUp ==
    swarm.pc = "done" =>
        /\ swarm.response.successful_replicas + swarm.response.failed_replicas
               = swarm.response.total_replicas
        /\ swarm.response.total_replicas = Len(swarm.response.results)


(***************************************************************************)
(* SpecExecute: POST /execute requests served at the same time, each up    *)
(* to its await of the worker's answer and from there to its return        *)
(***************************************************************************)
ExecuteTaskIds == {"t1", "t2"}

ExecuteRequests ==
    {[agent_id |-> a, task |-> [id |-> i, type |-> t]] :
        a \in {NoAgent}, i \in ExecuteTaskIds, t \in {"navigate"}}

\* execute_task up to `await self.http_client.post`: the entry written under task_id
execute_task_begin(active, agent_id, task_id, t) ==
    HSet(active, task_id, [agent_id |-> agent_id, start_time |-> t, status |-> "running"])

\* execute_task from the answer of the worker to its return: the registry and
\* active_tasks left behind and the dict returned.  Reading
\* self.active_tasks[task_id]["start_time"] raises KeyError when the entry is gone,
\* which `except Exception` turns into a failure; finally deletes the entry if present
execute_task_resume(active, registry, call, kind, t) ==
    LET present == HExists(active, call.task_id)
        cleaned == HDel(active, {call.task_id})
        elapsed == IF present THEN t - active[call.task_id].start_time ELSE 0
    IN IF kind = "transport_error"
       THEN [active_tasks |-> cleaned, agents |-> registry,
             ret |-> [success |-> FALSE, error |-> "transport_error",
                      execution_time |-> elapsed]]
       ELSE IF ~present
       THEN [active_tasks |-> active, agents |-> registry,
             ret |-> [success |-> FALSE, error |-> "KeyError", execution_time |-> 0]]
       ELSE IF kind = "ok"
       THEN [active_tasks |-> cleaned,
             agents |-> IF DictHas(registry, call.agent_id)
                        THEN DictSet(registry, call.agent_id,
                                     [DictGet(registry, call.agent_id)
                                         EXCEPT !.load = Max(0, @ - 1)])
                        ELSE registry,
             ret |-> [success |-> TRUE, error |-> NoError, execution_time |-> elapsed]]
       ELSE [active_tasks |-> cleaned, agents |-> registry,
             ret |-> [success |-> FALSE, error |-> "http_error",
                      execution_time |-> elapsed]]

ExecuteSequential ==
    UNCHANGED <<now, store_vars, pc, frame, agent_pool, last_discovery, selected, lb_pc,
                lb_frame, swarm, loops>>

\* POST /execute from the request to the await of the worker's answer; without an
\* agent the handler raises and execute_task is not called
PostExecuteCall(c, request) ==
    /\ executing[c].pc = "idle"
    /\ \E chosen \in select_agent(agents, request.task.type, request.agent_id) :
          IF chosen = NoAgent
          THEN UNCHANGED <<active_tasks, executing>>
          ELSE /\ active_tasks' = execute_task_begin(active_tasks, chosen,
                                                     request.task.id, now)
               /\ executing' = [executing EXCEPT
                                   ![c] = [NoExecution EXCEPT
                                              !.pc = "post", !.agent_id = chosen,
                                              !.task_id = request.task.id]]
    /\ UNCHANGED agents
    /\ ExecuteSequential

\* the worker's answer arrives and execute_task runs to its return
WorkerAnswers(c, kind) ==
    LET done == execute_task_resume(active_tasks, agents, executing[c], kind, now) IN
    /\ executing[c].pc = "post"
    /\ active_tasks' = done.active_tasks
    /\ agents' = done.agents
    /\ executing' = [executing EXCEPT ![c].pc = "returned", ![c].response = kind,
                                      ![c].ret = done.ret]
    /\ ExecuteSequential

\* the handler has sent the dict to its client
PostExecuteReturn(c) ==
    /\ executing[c].pc = "returned"
    /\ executing' = [executing EXCEPT ![c] = NoExecution]
    /\ UNCHANGED <<agents, active_tasks>>
    /\ ExecuteSequential

NextExecute ==
    \/ LbTick
    \/ \E c \in ExecuteCalls, request \in ExecuteRequests : PostExecuteCall(c, request)
    \/ \E c \in ExecuteCalls, kind \in ResponseKinds : WorkerAnswers(c, kind)
    \/ \E c \in ExecuteCalls : PostExecuteReturn(c)

SpecExecute == InitSwarm /\ [][NextExecute]_vars

ExecuteTypeOK ==
    /\ \A c \in ExecuteCalls : executing[c].pc \in {"idle", "post", "returned"}
    /\ DOMAIN active_tasks \subseteq ExecuteTaskIds

\* C40: execute_task reports success = true whenever the worker answered its execute
\* call with status 200, whatever other execute_task call runs at the same time,
\* another call carrying the same task id included.
C40_SuccessOnWorker200 ==
    \A c \in ExecuteCalls :
        (executing[c].pc = "returned" /\ executing[c].response = "ok")
            => executing[c].ret.success

==========================================================================
